---- MODULE Spec2Model ----
(***************************************************************************)
(* A model of the Tandoor export path of AIRecipeExtractor                 *)
(* (src/services/tandoorService.ts).                                       *)
(*                                                                         *)
(* JavaScript strings are sequences of one-character strings, so that      *)
(* trim, substring, split and the regular expressions of the source are    *)
(* computed character by character.  JavaScript values are tagged records: *)
(* a record field of a RecipeData that the JSON leaves out is Undef.       *)
(***************************************************************************)
EXTENDS Integers, Sequences, FiniteSets, TLC

\* ------------------------------------------------------------------ bounds
\* Longest list of instruction entries the inputs enumerate.
MaxInstr == 3
\* Longest list of ingredient lines the inputs enumerate.
MaxIngr == 2
\* Longest list of comma-separated keyword tokens the inputs enumerate.
MaxKw == 2
\* How far past a length limit the long input texts reach.
MaxOver == 2
\* Largest hours / minutes component of the durations the inputs enumerate.
MaxHM == 2
\* How many times the recipe is exported in a run that exports it again.
MaxCalls == 2
\* How many times the export modal is opened.
MaxOpens == 2

\* --------------------------------------------------------- program constants
NameLimit == 128
DescriptionLimit == 512
ServingsTextLimit == 32
FoodNameLimit == 128
KeywordLimit == 128

\* ---------------------------------------------------------------- JS values
Undef == [t |-> "undefined"]
Null == [t |-> "null"]
Str(s) == [t |-> "string", s |-> s]
Num(n) == [t |-> "number", n |-> n]
Arr(a) == [t |-> "array", a |-> a]
\* A plain object; text is its `text` property (Undef when it has none).
Obj(text) == [t |-> "object", text |-> text]

\* JavaScript truthiness: undefined, null, "" and 0 are falsy.
Truthy(v) ==
    CASE v.t = "undefined" -> FALSE
      [] v.t = "null" -> FALSE
      [] v.t = "string" -> v.s # <<>>
      [] v.t = "number" -> v.n # 0
      [] OTHER -> TRUE

Min(a, b) == IF a <= b THEN a ELSE b

Digits == <<"0", "1", "2", "3", "4", "5", "6", "7", "8", "9">>
IsDigit(c) == \E i \in 1..10 : Digits[i] = c
DigitVal(c) == (CHOOSE i \in 1..10 : Digits[i] = c) - 1

\* String.prototype.trim removes white space at both ends.
IsSpace(c) == c \in {" ", "\t", "\n"}

Trim(s) ==
    LET keep == {i \in 1..Len(s) : ~IsSpace(s[i])}
    IN IF keep = {} THEN <<>>
       ELSE SubSeq(s, CHOOSE i \in keep : \A j \in keep : i <= j,
                      CHOOSE i \in keep : \A j \in keep : j <= i)

\* s.substring(0, n)
SubstringTo(s, n) == SubSeq(s, 1, Min(n, Len(s)))

StartsWith(s, p) == Len(p) <= Len(s) /\ SubSeq(s, 1, Len(p)) = p

\* parseInt(d, 10) of a run of decimal digits.
RECURSIVE ParseInt(_)
ParseInt(d) ==
    IF d = <<>> THEN 0
    ELSE 10 * ParseInt(SubSeq(d, 1, Len(d) - 1)) + DigitVal(d[Len(d)])

\* String(n) of a natural number.
RECURSIVE NumToStr(_)
NumToStr(n) ==
    IF n < 10 THEN <<Digits[n + 1]>>
    ELSE Append(NumToStr(n \div 10), Digits[(n % 10) + 1])

\* The last index of the run of digits of s that starts at i (i - 1 when
\* s[i] is no digit): what a greedy \d+ consumes from position i.
DigitsEnd(s, i) ==
    LET stop == {j \in i..Len(s) : ~IsDigit(s[j])}
    IN IF stop = {} THEN Len(s)
       ELSE (CHOOSE j \in stop : \A k \in stop : j <= k) - 1

\* One optional group (?:(\d+)X)? of the duration pattern tried at index i:
\* the captured digits (<<>> when the group does not take part) and the
\* index after it.
DurationGroup(s, i, unit) ==
    LET e == DigitsEnd(s, i)
    IN IF e >= i /\ e + 1 <= Len(s) /\ s[e + 1] = unit
       THEN [cap |-> SubSeq(s, i, e), next |-> e + 2]
       ELSE [cap |-> <<>>, next |-> i]

\* matches[k] || '0' followed by parseInt
GroupValue(cap) == IF cap = <<>> THEN 0 ELSE ParseInt(cap)

\* Math.round(seconds / 60) for seconds >= 0: halves round up.
RoundSecondsMutant(seconds) == seconds \div 60
RoundSeconds(seconds) == (seconds + 30) \div 60

\* The value returned for a total of zero minutes.
ZeroTotalMutant == Num(0)
ZeroTotal == Null

isoDurationToMinutesThrows(durationStr) ==
    Truthy(durationStr) /\ durationStr.t # "string"

isoDurationToMinutes(durationStr) ==
    IF ~Truthy(durationStr) THEN Null
    ELSE
      LET s == durationStr.s
          at == {i \in 1..(Len(s) - 1) : s[i] = "P" /\ s[i + 1] = "T"}
      IN IF at = {} THEN Null
         ELSE
           LET p == CHOOSE i \in at : \A j \in at : i <= j
               h == DurationGroup(s, p + 2, "H")
               m == DurationGroup(s, h.next, "M")
               sec == DurationGroup(s, m.next, "S")
               hours == GroupValue(h.cap)
               minutes == GroupValue(m.cap)
               seconds == GroupValue(sec.cap)
               totalMinutes ==
                   hours * 60 + minutes
                     + (IF seconds > 0 THEN RoundSeconds(seconds) ELSE 0)
           IN IF totalMinutes > 0 THEN Num(totalMinutes) ELSE ZeroTotal

parseServingsThrows(yieldStr) == Truthy(yieldStr) /\ yieldStr.t # "string"

\* match[0] of yieldStr.match(/(\d+)/): the first run of digits.
FirstDigitRunMutant(s) ==
    LET t == SubstringTo(s, ServingsTextLimit)
        at == {i \in 1..Len(t) : IsDigit(t[i])}
    IN IF at = {} THEN <<>>
       ELSE LET i == CHOOSE i \in at : \A j \in at : i <= j
            IN SubSeq(t, i, DigitsEnd(t, i))
FirstDigitRun(s) ==
    LET at == {i \in 1..Len(s) : IsDigit(s[i])}
    IN IF at = {} THEN <<>>
       ELSE LET i == CHOOSE i \in at : \A j \in at : i <= j
            IN SubSeq(s, i, DigitsEnd(s, i))

parseServings(yieldStr) ==
    IF ~Truthy(yieldStr) THEN [servings |-> Null, servings_text |-> <<>>]
    ELSE
      LET match == FirstDigitRun(yieldStr.s)
          num == IF match # <<>> THEN Num(ParseInt(match)) ELSE Null
          servingsText ==
              IF Len(yieldStr.s) > ServingsTextLimit
              THEN SubstringTo(yieldStr.s, ServingsTextLimit)
              ELSE yieldStr.s
      IN [servings |-> num, servings_text |-> servingsText]

\* ------------------------------------------------------------ the payload
UntitledRecipe ==
    <<"U", "n", "t", "i", "t", "l", "e", "d", " ", "R", "e", "c", "i", "p", "e">>
NoInstructionsProvided ==
    <<"N", "o", " ", "i", "n", "s", "t", "r", "u", "c", "t", "i", "o", "n", "s",
      " ", "p", "r", "o", "v", "i", "d", "e", "d", ".">>
ObjectObject ==
    <<"[", "o", "b", "j", "e", "c", "t", " ", "O", "b", "j", "e", "c", "t", "]">>
UndefinedText == <<"u", "n", "d", "e", "f", "i", "n", "e", "d">>

\* (recipeData.name || "Untitled Recipe").substring(0, 128)
PayloadNameThrows(name) == Truthy(name) /\ name.t # "string"
PayloadNameMutant(name) ==
    IF Truthy(name) THEN name.s ELSE UntitledRecipe
PayloadName(name) ==
    SubstringTo(IF Truthy(name) THEN name.s ELSE UntitledRecipe, NameLimit)

\* recipeData.description ? recipeData.description.substring(0, 512) : null
PayloadDescriptionThrows(description) ==
    Truthy(description) /\ description.t # "string"
PayloadDescription(description) ==
    IF Truthy(description)
    THEN Str(SubstringTo(description.s, DescriptionLimit))
    ELSE Null

\* String(instructionItem) for an item that is neither a string nor an
\* object with a truthy text.
StringOf(v) ==
    CASE v.t = "undefined" -> UndefinedText
      [] v.t = "number" -> NumToStr(v.n)
      [] v.t = "string" -> v.s
      [] OTHER -> ObjectObject

\* Reading instructionItem.text of null is a TypeError.
InstructionTextThrows(instructionItem) == instructionItem.t = "null"

\* The instructionText of one entry, as a JS value: the text property of a
\* structured entry is taken as it is, whatever its type.
InstructionText(instructionItem) ==
    IF instructionItem.t = "string" THEN instructionItem
    ELSE IF instructionItem.t = "object" /\ Truthy(instructionItem.text)
         THEN instructionItem.text
         ELSE Str(StringOf(instructionItem))

\* The order given to the step made from the entry at (zero-based) index.
StepOrder(index) == index

StepObject(instruction, order) ==
    [name |-> <<>>, type |-> "TEXT", instruction |-> instruction,
     ingredients |-> <<>>, time |-> 0, order |-> order,
     show_as_header |-> FALSE]

\* step => step.instruction.trim() !== ""
KeepsStep(step) == Trim(step.instruction) # <<>>

\* recipeInstructions.map(...).filter(...): the map gives every entry its
\* index as order, the filter then drops the blank ones.
MappedStepsThrows(recipeInstructions) ==
    \E i \in 1..Len(recipeInstructions) :
        \/ InstructionTextThrows(recipeInstructions[i])
        \/ InstructionText(recipeInstructions[i]).t # "string"

MappedSteps(recipeInstructions) ==
    SelectSeq(
      [i \in 1..Len(recipeInstructions) |->
          StepObject(InstructionText(recipeInstructions[i]).s, StepOrder(i - 1))],
      KeepsStep)

PlaceholderStep == StepObject(NoInstructionsProvided, 0)

\* recipeData.recipeInstructions && Array.isArray(recipeData.recipeInstructions)
IsArray(v) == v.t = "array"

StepsThrows(recipeInstructions) ==
    IsArray(recipeInstructions) /\ MappedStepsThrows(recipeInstructions.a)

\* tandoorPayload.steps before the ingredients are added.
StepsOf(recipeInstructions) ==
    LET mapped == IF IsArray(recipeInstructions)
                  THEN MappedSteps(recipeInstructions.a)
                  ELSE <<>>
    IN IF Len(mapped) = 0 THEN <<PlaceholderStep>> ELSE mapped

\* ---------------------------------------------------------- the ingredients
UpperCase ==
    <<"A", "B", "C", "D", "E", "F", "G", "H", "I", "J", "K", "L", "M",
      "N", "O", "P", "Q", "R", "S", "T", "U", "V", "W", "X", "Y", "Z">>
LowerCase ==
    <<"a", "b", "c", "d", "e", "f", "g", "h", "i", "j", "k", "l", "m",
      "n", "o", "p", "q", "r", "s", "t", "u", "v", "w", "x", "y", "z">>

\* The case folding of the regular expression's i flag.
Fold(c) ==
    IF \E i \in 1..26 : UpperCase[i] = c
    THEN LowerCase[CHOOSE i \in 1..26 : UpperCase[i] = c]
    ELSE c

StartsWithFolded(s, p) ==
    Len(p) <= Len(s) /\ \A i \in 1..Len(p) : Fold(s[i]) = p[i]

ForThe == <<"f", "o", "r", " ", "t", "h", "e", " ">>
SauceColon == <<"s", "a", "u", "c", "e", ":">>
MarinadeColon == <<"m", "a", "r", "i", "n", "a", "d", "e", ":">>
DressingColon == <<"d", "r", "e", "s", "s", "i", "n", "g", ":">>

\* /^(For the .*?:|Sauce:|Marinade:|Dressing:)/i.test(t): `.` matches no
\* line terminator, so the colon closing "For the" is on the first line.
MatchesLeadIn(t) ==
    \/ /\ StartsWithFolded(t, ForThe)
       /\ \E k \in (Len(ForThe) + 1)..Len(t) :
             /\ t[k] = ":"
             /\ \A j \in (Len(ForThe) + 1)..(k - 1) : t[j] # "\n"
    \/ StartsWithFolded(t, SauceColon)
    \/ StartsWithFolded(t, MarinadeColon)
    \/ StartsWithFolded(t, DressingColon)

EndsWithColon(t) == Len(t) > 0 /\ t[Len(t)] = ":"

\* The heuristic without the i flag of its regular expression.
isLikelyHeaderMutant(ingredientString) ==
    \/ StartsWith(Trim(ingredientString), <<"F", "o", "r", " ", "t", "h", "e", " ">>)
         /\ MatchesLeadIn(Trim(ingredientString))
    \/ StartsWith(Trim(ingredientString), <<"S", "a", "u", "c", "e", ":">>)
    \/ StartsWith(Trim(ingredientString), <<"M", "a", "r", "i", "n", "a", "d", "e", ":">>)
    \/ StartsWith(Trim(ingredientString), <<"D", "r", "e", "s", "s", "i", "n", "g", ":">>)
    \/ EndsWithColon(Trim(ingredientString))

isLikelyHeader(ingredientString) ==
    MatchesLeadIn(Trim(ingredientString)) \/ EndsWithColon(Trim(ingredientString))

Unit == [name |-> <<"g">>, description |-> Null]

\* The order given to the ingredient made from the line at (zero-based) index.
IngredientOrderMutant(index, isHeader) == IF isHeader THEN 0 ELSE index
IngredientOrder(index, isHeader) == index

\* ingredientString.substring(0, 128).trim()
FoodName(ingredientString) ==
    Trim(SubstringTo(ingredientString, FoodNameLimit))

\* The tandoorIngredient pushed for one ingredient line.
TandoorIngredient(ingredientString, index) ==
    IF isLikelyHeader(ingredientString)
    THEN [food |-> Null,
          unit |-> Unit,
          amount |-> <<"0">>,
          note |-> Trim(ingredientString),
          order |-> IngredientOrder(index, TRUE),
          is_header |-> TRUE,
          no_amount |-> FALSE]
    ELSE [food |-> [name |-> FoodName(ingredientString),
                    ignore_shopping |-> FALSE,
                    supermarket_category |-> Null],
          unit |-> Unit,
          amount |-> <<"0">>,
          note |-> <<>>,
          order |-> IngredientOrder(index, FALSE),
          is_header |-> FALSE,
          no_amount |-> TRUE]

\* ingredientString.trim() of anything but a string is a TypeError.
IngredientsThrows(recipeIngredient) ==
    /\ IsArray(recipeIngredient)
    /\ \E i \in 1..Len(recipeIngredient.a) : recipeIngredient.a[i].t # "string"

\* The ingredients pushed, in the order of the forEach.
IngredientsOf(recipeIngredient) ==
    IF IsArray(recipeIngredient)
    THEN [i \in 1..Len(recipeIngredient.a) |->
            TandoorIngredient(recipeIngredient.a[i].s, i - 1)]
    ELSE <<>>

\* The index of the step the ingredients are pushed to (steps[0]).
IngredientStep(steps) == 1

\* tandoorPayload.steps after the forEach over the ingredient lines.
StepsWithIngredients(steps, recipeIngredient) ==
    IF Len(steps) > 0
    THEN [steps EXCEPT ![IngredientStep(steps)].ingredients =
              @ \o IngredientsOf(recipeIngredient)]
    ELSE steps

\* ------------------------------------------------------------- the keywords
\* s.split(',')
RECURSIVE Split(_)
Split(s) ==
    LET at == {i \in 1..Len(s) : s[i] = ","}
    IN IF at = {} THEN <<s>>
       ELSE LET i == CHOOSE i \in at : \A j \in at : i <= j
            IN <<SubSeq(s, 1, i - 1)>> \o Split(SubSeq(s, i + 1, Len(s)))

InSeq(x, seq) == \E i \in 1..Len(seq) : seq[i] = x

\* keywordsSet.add(x), guarded by `if (x)`: a Set keeps insertion order.
SetAddMutant(set, x) == IF x = <<>> THEN set ELSE Append(set, x)
SetAdd(set, x) == IF x = <<>> \/ InSeq(x, set) THEN set ELSE Append(set, x)

RECURSIVE AddTokens(_, _)
AddTokens(set, tokens) ==
    IF tokens = <<>> THEN set
    ELSE AddTokens(SetAdd(set, Trim(Head(tokens))), Tail(tokens))

\* recipeCategory.trim() / recipeCuisine.trim() of a truthy non-string.
TrimmedFieldThrows(v) == Truthy(v) /\ v.t # "string"

KeywordsSet(keywords, recipeCategory, recipeCuisine) ==
    LET fromKeywords ==
            IF Truthy(keywords) /\ keywords.t = "string"
            THEN AddTokens(<<>>, Split(keywords.s))
            ELSE <<>>
        withCategory ==
            IF Truthy(recipeCategory)
            THEN SetAdd(fromKeywords, Trim(recipeCategory.s))
            ELSE fromKeywords
    IN IF Truthy(recipeCuisine)
       THEN SetAdd(withCategory, Trim(recipeCuisine.s))
       ELSE withCategory

\* Array.from(keywordsSet).map(kw => ({name: kw.substring(0, 128), description: ""}))
KeywordObject(kw) ==
    [name |-> SubstringTo(kw, KeywordLimit), description |-> <<>>]

PayloadKeywords(keywords, recipeCategory, recipeCuisine) ==
    LET set == KeywordsSet(keywords, recipeCategory, recipeCuisine)
    IN [i \in 1..Len(set) |-> KeywordObject(set[i])]

\* ------------------------------------------------------- the whole payload
Nutrition ==
    [carbohydrates |-> 0, fats |-> 0, proteins |-> 0, calories |-> 0,
     source |-> <<>>]

\* A property the payload has only when its value is not null.
Optional(key, value) ==
    IF value # Null THEN [k \in {key} |-> value.n] ELSE <<>>

\* Whether building the payload ends in a TypeError.
PayloadThrows(rd) ==
    \/ PayloadNameThrows(rd.name)
    \/ PayloadDescriptionThrows(rd.description)
    \/ isoDurationToMinutesThrows(rd.prepTime)
    \/ isoDurationToMinutesThrows(rd.cookTime)
    \/ StepsThrows(rd.recipeInstructions)
    \/ IngredientsThrows(rd.recipeIngredient)
    \/ parseServingsThrows(rd.recipeYield)
    \/ TrimmedFieldThrows(rd.recipeCategory)
    \/ TrimmedFieldThrows(rd.recipeCuisine)

\* tandoorPayload as it is when fetch is called.
TandoorPayload(rd) ==
    LET workingTime == isoDurationToMinutes(rd.prepTime)
        waitingTime == isoDurationToMinutes(rd.cookTime)
        parsedServingsData == parseServings(rd.recipeYield)
    IN [name |-> PayloadName(rd.name),
        description |-> PayloadDescription(rd.description),
        keywords |-> PayloadKeywords(rd.keywords, rd.recipeCategory,
                                     rd.recipeCuisine),
        steps |-> StepsWithIngredients(StepsOf(rd.recipeInstructions),
                                       rd.recipeIngredient),
        source_url |-> Null,
        internal |-> FALSE,
        show_ingredient_overview |-> FALSE,
        nutrition |-> Nutrition,
        properties |-> <<>>,
        file_path |-> <<>>,
        private |-> FALSE,
        shared |-> <<>>,
        servings_text |-> parsedServingsData.servings_text]
       @@ Optional("working_time", workingTime)
       @@ Optional("waiting_time", waitingTime)
       @@ Optional("servings", parsedServingsData.servings)

\* -------------------------------------------------------------- the request
HttpScheme == <<"h", "t", "t", "p", ":", "/", "/">>
HttpsScheme == <<"h", "t", "t", "p", "s", ":", "/", "/">>
RecipePath == <<"/", "a", "p", "i", "/", "r", "e", "c", "i", "p", "e", "/">>

\* A validation that asks for a scheme only.
InvalidUrlMutant(tandoorBaseUrl) ==
    ~\E i \in 1..Len(tandoorBaseUrl) : tandoorBaseUrl[i] = ":"

\* !sanitizedUrl.startsWith('http://') && !sanitizedUrl.startsWith('https://')
InvalidUrl(tandoorBaseUrl) ==
    /\ ~StartsWith(Trim(tandoorBaseUrl), HttpScheme)
    /\ ~StartsWith(Trim(tandoorBaseUrl), HttpsScheme)

\* `${sanitizedUrl.replace(/\/$/, '')}/api/recipe/`
ApiUrl(tandoorBaseUrl) ==
    LET sanitizedUrl == Trim(tandoorBaseUrl)
        n == Len(sanitizedUrl)
    IN (IF n > 0 /\ sanitizedUrl[n] = "/"
        THEN SubSeq(sanitizedUrl, 1, n - 1)
        ELSE sanitizedUrl) \o RecipePath

\* An Error object: its class and its message, a sequence of text pieces.
Err(name, message) == [name |-> name, message |-> message]
NoError == Err("none", <<>>)
InvalidUrlError ==
    Err("Error", <<"Invalid Tandoor URL: Must start with http:// or https://">>)
\* The TypeError a property read of null or a call of a missing method gives.
PayloadTypeError == Err("TypeError", <<"payload">>)

NoRequest == [url |-> <<>>, method |-> "none", authorization |-> <<>>,
              body |-> <<>>]

\* ------------------------------------------------------------- the response
\* A JSON object of a response body: its entries, in order.
Entries(e) == [t |-> "object", entries |-> e]

RECURSIVE Join(_, _)
\* parts.join(sep), the parts and sep being sequences of text pieces.
Join(parts, sep) ==
    IF parts = <<>> THEN <<>>
    ELSE IF Len(parts) = 1 THEN parts[1]
    ELSE parts[1] \o sep \o Join(Tail(parts), sep)

\* String(v) and `${v}` of a JSON value of the response body.
JsonText(v) ==
    CASE v.t = "string" -> v.s
      [] v.t = "number" -> NumToStr(v.n)
      [] v.t = "null" -> <<"null">>
      [] v.t = "array" -> Join([i \in 1..Len(v.a) |-> v.a[i].s], <<",">>)
      [] OTHER -> ObjectObject

\* Object.entries(errorData): an array's entries are keyed by its indexes.
EntriesOf(errorData) ==
    IF errorData.t = "array"
    THEN [i \in 1..Len(errorData.a) |->
            [k \in {"k", "v"} |->
               IF k = "k" THEN NumToStr(i - 1) ELSE errorData.a[i]]]
    ELSE errorData.entries

\* Object.entries(errors) of a null `errors` is a TypeError.
FieldErrorsThrows(errorData) ==
    \E i \in 1..Len(EntriesOf(errorData)) : EntriesOf(errorData)[i].v.t = "null"

\* The text of an entry whose list of messages is not joined by ', '.
FieldPartMutant(field, errors) ==
    IF errors.t = "object"
    THEN field \o <<": { ">>
         \o Join([i \in 1..Len(errors.entries) |->
                    errors.entries[i].k \o <<": ">>
                      \o JsonText(errors.entries[i].v)], <<", ">>)
         \o <<" }">>
    ELSE field \o <<": ">> \o JsonText(errors)

\* The text of one [field, errors] entry.
FieldPart(field, errors) ==
    IF errors.t = "object"
    THEN field \o <<": { ">>
         \o Join([i \in 1..Len(errors.entries) |->
                    errors.entries[i].k \o <<": ">>
                      \o JsonText(errors.entries[i].v)], <<", ">>)
         \o <<" }">>
    ELSE field \o <<": ">>
         \o (IF errors.t = "array"
             THEN Join([i \in 1..Len(errors.a) |-> JsonText(errors.a[i])],
                       <<", ">>)
             ELSE JsonText(errors))

FieldErrors(errorData) ==
    LET e == EntriesOf(errorData)
    IN Join([i \in 1..Len(e) |-> FieldPart(e[i].k, e[i].v)], <<"; ">>)

\* errorData.detail
DetailOf(errorData) ==
    IF errorData.t = "object"
         /\ \E i \in 1..Len(errorData.entries) :
               errorData.entries[i].k = <<"detail">>
    THEN LET i == CHOOSE i \in 1..Len(errorData.entries) :
                     errorData.entries[i].k = <<"detail">>
         IN errorData.entries[i].v
    ELSE Undef

\* JSON.stringify of an errorData that has no entries.
StringifyEmpty(errorData) ==
    IF errorData.t = "array" THEN <<"[]">> ELSE <<"{}">>

StatusPrefix(status) ==
    <<"Tandoor API request failed with status ">> \o NumToStr(status) \o <<".">>

\* response.text() after response.json() has read the body: the body is
\* used, text() rejects and the catch gives ''.
TextAfterJson(body) == <<>>

\* errorMessage after the inner try/catch (lines 199-225).
DetailedMessage(status, body) ==
    StatusPrefix(status) \o
    (IF body.kind = "text" \/ (body.value.t \in {"object", "array"}
                               /\ FieldErrorsThrows(body.value))
     THEN <<" Could not parse error response body. Response: ">>
          \o (IF TextAfterJson(body) # <<>> THEN TextAfterJson(body)
              ELSE <<"(empty response)">>)
     ELSE IF body.value.t \in {"object", "array"}
     THEN (IF FieldErrors(body.value) # <<>>
           THEN <<" Details: {">> \o FieldErrors(body.value) \o <<"}">>
           ELSE IF Truthy(DetailOf(body.value))
           THEN <<" Details: ">> \o JsonText(DetailOf(body.value))
           ELSE <<" Details: ">> \o StringifyEmpty(body.value))
     ELSE <<" Details: ">> \o JsonText(body.value))

AuthenticationFailed ==
    <<"Authentication failed. Please check your Tandoor API Key.">>
EndpointNotFound ==
    <<"Tandoor API endpoint not found. Please check the Tandoor Instance URL.">>

\* A classification without the case of 404.
StatusMessageNotFoundMutant(status, body) ==
    IF status = 401 \/ status = 403 THEN AuthenticationFailed
    ELSE DetailedMessage(status, body)

\* A classification that knows 401 only.
StatusMessageMutant(status, body) ==
    IF status = 401 THEN AuthenticationFailed
    ELSE IF status = 404 THEN EndpointNotFound
    ELSE DetailedMessage(status, body)

\* The message of the Error thrown for a response that is not ok.
StatusMessage(status, body) ==
    IF status = 401 \/ status = 403 THEN AuthenticationFailed
    ELSE IF status = 404 THEN EndpointNotFound
    ELSE DetailedMessage(status, body)

\* A test of the status that takes a redirection for a success.
OkMutant(status) == status >= 200 /\ status <= 399

\* response.ok
Ok(status) == status >= 200 /\ status <= 299

\* error.message.includes('NetworkError') || error.message.includes('Failed to fetch')
LooksLikeNetworkFailure(error) ==
    /\ error.name = "TypeError"
    /\ \E i \in 1..Len(error.message) :
          error.message[i] \in {"NetworkError", "Failed to fetch"}

\* An outer catch that wraps whatever is no network failure.
CaughtErrorMutant(error) ==
    IF LooksLikeNetworkFailure(error)
    THEN Err("Error",
             <<"Network error or Tandoor instance unreachable. Check URL and CORS settings on your Tandoor instance if this is a self-hosted setup. Original: ">>
               \o error.message)
    ELSE Err("Error",
             <<"An unexpected error occurred during Tandoor export: ">>
               \o error.message)

\* What the outer catch throws for a rejection of fetch.
CaughtError(error) ==
    IF LooksLikeNetworkFailure(error)
    THEN Err("Error",
             <<"Network error or Tandoor instance unreachable. Check URL and CORS settings on your Tandoor instance if this is a self-hosted setup. Original: ">>
               \o error.message)
    ELSE IF error.name # "thrown value" THEN error
    ELSE Err("Error",
             <<"An unexpected error occurred during Tandoor export: ">>
               \o error.message)

\* ------------------------------------------------------- the text formatter
\* A plural for every magnitude.
PluralMutant(n) == IF n >= 1 THEN <<"s">> ELSE <<>>

\* The 's' of `hour${hours > 1 ? 's' : ''}`.
Plural(n) == IF n > 1 THEN <<"s">> ELSE <<>>

\* `${n} hour${...} ` and `${n} minute${...} `, '' for n = 0.
DurationPart(n, word) ==
    IF n > 0 THEN NumToStr(n) \o <<" ">> \o word \o Plural(n) \o <<" ">>
    ELSE <<>>

HourWord == <<"h", "o", "u", "r">>
MinuteWord == <<"m", "i", "n", "u", "t", "e">>

\* isoDuration.match of a value that is no string is a TypeError.
formatIsoDurationThrows(isoDuration) ==
    Truthy(isoDuration) /\ isoDuration.t # "string"

formatIsoDuration(isoDuration) ==
    IF ~Truthy(isoDuration) THEN <<>>
    ELSE
      LET s == isoDuration.s
          at == {i \in 1..(Len(s) - 1) : s[i] = "P" /\ s[i + 1] = "T"}
      IN IF at = {} THEN s
         ELSE
           LET p == CHOOSE i \in at : \A j \in at : i <= j
               h == DurationGroup(s, p + 2, "H")
               m == DurationGroup(s, h.next, "M")
               hours == GroupValue(h.cap)
               minutes == GroupValue(m.cap)
               formatted == DurationPart(hours, HourWord)
                              \o DurationPart(minutes, MinuteWord)
           IN IF Trim(formatted) # <<>> THEN Trim(formatted) ELSE s

UntitledRecipeName == Str(UntitledRecipe)
NoRecipeFound == Str(<<"N", "o", " ", "R", "e", "c", "i", "p", "e", " ", "F", "o", "u", "n", "d">>)
NoRecipeIdentified == <<"No recipe could be identified in the image.">>
NoRecipeDataAvailable == <<"No recipe data available.">>
NoIngredientsFound == <<"No ingredients found.">>
NoInstructionsFound == <<"No instructions found.">>

\* `${value}` of a truthy field.
TemplateText(v) ==
    CASE v.t = "string" -> v.s
      [] v.t = "number" -> NumToStr(v.n)
      [] v.t = "array" -> Join([i \in 1..Len(v.a) |-> StringOf(v.a[i])], <<",">>)
      [] OTHER -> ObjectObject

\* `\nLabel: ${value}\n` and `Label: ${value}\n` for a truthy value.
Labelled(gap, label, value) ==
    IF Truthy(value)
    THEN gap \o <<label, " ">> \o TemplateText(value) \o <<"\n">>
    ELSE <<>>
LabelledDuration(label, value) ==
    IF Truthy(value)
    THEN <<label, " ">> \o formatIsoDuration(value) \o <<"\n">>
    ELSE <<>>

\* value && value.length > 0
HasEntries(v) ==
    \/ v.t = "array" /\ Len(v.a) > 0
    \/ v.t = "string" /\ Len(v.s) > 0

\* The concatenation of the texts of a sequence.
RECURSIVE Concat(_)
Concat(texts) ==
    IF texts = <<>> THEN <<>> ELSE Head(texts) \o Concat(Tail(texts))

\* The block of the ingredients (lines 36-43).
IngredientBlock(rd) ==
    IF HasEntries(rd.recipeIngredient)
    THEN <<"\n", "Ingredients:", "\n">>
         \o Concat([i \in 1..Len(rd.recipeIngredient.a) |->
                      <<"-", " ">> \o StringOf(rd.recipeIngredient.a[i])
                        \o <<"\n">>])
    ELSE IF rd.name # NoRecipeFound
    THEN <<"\n">> \o NoIngredientsFound \o <<"\n">>
    ELSE <<>>

\* The line of one instruction: a string, or an object with a truthy text.
InstructionLine(instruction, index) ==
    IF instruction.t = "string"
    THEN NumToStr(index + 1) \o <<".", " ">> \o instruction.s \o <<"\n">>
    ELSE IF instruction.t = "object" /\ Truthy(instruction.text)
    THEN NumToStr(index + 1) \o <<".", " ">> \o TemplateText(instruction.text)
           \o <<"\n">>
    ELSE <<>>

\* The block of the instructions (lines 45-56).
InstructionBlock(rd) ==
    IF HasEntries(rd.recipeInstructions)
    THEN <<"\n", "Instructions:", "\n">>
         \o Concat([i \in 1..Len(rd.recipeInstructions.a) |->
                      InstructionLine(rd.recipeInstructions.a[i], i - 1)])
    ELSE IF rd.name # NoRecipeFound
    THEN <<"\n">> \o NoInstructionsFound \o <<"\n">>
    ELSE <<>>

\* forEach of a string, instruction.text of null, and formatIsoDuration of
\* a value that is no string are TypeErrors.
formatRecipeJsonToTextThrows(rd) ==
    /\ rd # Null
    /\ rd.name # NoRecipeFound
    /\ \/ formatIsoDurationThrows(rd.prepTime)
       \/ formatIsoDurationThrows(rd.cookTime)
       \/ rd.recipeIngredient.t = "string" /\ HasEntries(rd.recipeIngredient)
       \/ rd.recipeInstructions.t = "string" /\ HasEntries(rd.recipeInstructions)
       \/ /\ rd.recipeInstructions.t = "array"
          /\ \E i \in 1..Len(rd.recipeInstructions.a) :
                rd.recipeInstructions.a[i].t = "null"

\* A sentinel test that looks at the ingredients too.
IsSentinelMutant(rd) ==
    rd.name = NoRecipeFound /\ ~HasEntries(rd.recipeIngredient)

\* recipeData.name === "No Recipe Found" (lines 8-12).
IsSentinel(rd) == rd.name = NoRecipeFound

formatRecipeJsonToText(rd) ==
    IF rd = Null THEN NoRecipeDataAvailable
    ELSE IF IsSentinel(rd) THEN NoRecipeIdentified
    ELSE Trim(
      (IF Truthy(rd.name) /\ rd.name # UntitledRecipeName
            /\ rd.name # NoRecipeFound
       THEN TemplateText(rd.name) \o <<"\n">> ELSE <<>>)
      \o Labelled(<<"\n">>, "Description:", rd.description)
      \o Labelled(<<"\n">>, "Yield:", rd.recipeYield)
      \o LabelledDuration("Prep Time:", rd.prepTime)
      \o LabelledDuration("Cook Time:", rd.cookTime)
      \o Labelled(<<>>, "Category:", rd.recipeCategory)
      \o Labelled(<<>>, "Cuisine:", rd.recipeCuisine)
      \o IngredientBlock(rd)
      \o InstructionBlock(rd)
      \o Labelled(<<"\n">>, "Keywords:", rd.keywords))

\* ------------------------------------------------------------------ inputs
\* The string of n copies of the character c.
Rep(c, n) == [i \in 1..n |-> c]

\* All sequences over S of length at most n.
SeqsUpTo(S, n) == UNION {[1..k -> S] : k \in 0..n}

\* The lengths around a limit the long texts take.
Around(limit) == (limit - 1)..(limit + MaxOver)

BaseRecipe ==
    [name |-> Str(<<"R">>), description |-> Undef,
     recipeIngredient |-> Arr(<<>>), recipeInstructions |-> Arr(<<>>),
     prepTime |-> Undef, cookTime |-> Undef, recipeYield |-> Undef,
     recipeCategory |-> Undef, recipeCuisine |-> Undef, keywords |-> Undef]

\* Instruction entries: plain strings, structured steps and malformed ones.
InstructionItems ==
    {Str(<<>>), Str(<<" ">>), Str(<<"a">>),
     Obj(Str(<<"b">>)), Obj(Str(<<>>)), Obj(Str(<<" ", "\n">>)),
     Null, Obj(Num(7))}
MalformedInstructions ==
    {Undef, Null, Str(<<"a">>), Arr(<<Undef>>), Arr(<<Num(12)>>),
     Arr(<<Obj(Undef)>>), Arr(<<Obj(Null)>>), Arr(<<Obj(Num(0))>>)}
InstructionInputs ==
    {Arr(a) : a \in SeqsUpTo(InstructionItems, MaxInstr)}
      \cup MalformedInstructions

ForTheSauce == <<"F", "o", "r", " ", "t", "h", "e", " ", "s", ":", " ", "x">>
IngredientLines ==
    {<<"a">>, <<" ", "a", " ">>, <<"x", ":">>, <<" ", "x", ":", " ">>,
     ForTheSauce, <<"S", "A", "U", "C", "E", ":", "x">>}
      \cup {Rep("x", n) : n \in Around(FoodNameLimit)}
      \cup {<<" ">> \o Rep("x", FoodNameLimit)}
\* Single lines on either side of the header heuristic.
HeaderProbeLines ==
    {<<"M", "a", "r", "i", "n", "a", "d", "e", ":">>,
     <<"d", "r", "e", "s", "s", "i", "n", "g", ":", " ", "x">>,
     <<"F", "o", "r", " ", "t", "h", "e", " ", "x">>,
     <<"F", "o", "r", " ", "t", "h", "e", "x", ":", " ", "y">>,
     <<"a", ":", "b">>,
     <<"S", "a", "u", "c", "e", " ", ":">>,
     <<"S", "a", "u", "c", "e", " ", "y">>,
     <<"F", "o", "r", " ", "t", "h", "e", " ", "a", "\n", "b", ":", " ", "c">>,
     <<"2", " ", "c", "u", "p", "s", " ", "f", "l", "o", "u", "r">>,
     <<>>}
IngredientInputs ==
    {Arr([i \in 1..Len(a) |-> Str(a[i])]) :
        a \in SeqsUpTo(IngredientLines, MaxIngr)}
      \cup {Arr(<<Str(line)>>) : line \in HeaderProbeLines}
      \cup {Undef, Null, Arr(<<Str(<<"a">>), Num(1)>>), Arr(<<Null>>)}

\* Keyword texts: up to MaxKw tokens joined by a comma, or by a comma and
\* a space.
LongToken(c) == Rep("a", KeywordLimit) \o <<c>>
KeywordTokens == {<<>>, <<"D">>, <<"d">>, <<"e", " ", "f">>,
                  LongToken("b"), LongToken("c")}
KeywordInputs ==
    {Str(Join(a, sep)) :
        a \in SeqsUpTo(KeywordTokens, MaxKw) \ {<<>>},
        sep \in {<<",">>, <<",", " ">>}}
      \cup {Undef, Null, Str(<<>>), Arr(<<Str(<<"D">>)>>)}
\* Pairs of a category and a cuisine.
CategoryCuisineInputs ==
    {<<Undef, Undef>>, <<Null, Str(<<>>)>>, <<Str(<<"D">>), Undef>>,
     <<Str(<<" ", "D", " ">>), Str(<<"d">>)>>, <<Str(<<" ">>), Str(<<"I">>)>>,
     <<Str(<<"e", ",", "f">>), Str(<<"e", ",", "f">>)>>,
     <<Str(LongToken("b")), Str(LongToken("c"))>>,
     <<Num(1), Undef>>, <<Undef, Arr(<<>>)>>}

\* Durations: PT, then the components that are present, in order; or around
\* it a character that is no part of the pattern.
Component(n, unit) == IF n < 0 THEN <<>> ELSE NumToStr(n) \o <<unit>>
DurationText(pre, h, m, s, suf) ==
    pre \o <<"P", "T">> \o Component(h, "H") \o Component(m, "M")
        \o Component(s, "S") \o suf
\* -1 stands for a component that is absent.
HourInputs == -1..MaxHM
MinuteInputs == -1..MaxHM \cup {30}
SecondInputs == {-1, 0, 29, 30, 45, 89, 90}
Affixes == {<<>>, <<"x">>}
DurationInputs ==
    {Str(DurationText(pre, h, m, s, suf)) :
        pre \in Affixes, h \in HourInputs, m \in MinuteInputs,
        s \in SecondInputs, suf \in Affixes}
      \cup {Undef, Null, Str(<<>>), Str(<<"g", "a", "r", "b", "a", "g", "e">>),
            Str(<<"P", "1", "D">>), Str(<<"P", "T", "1", ".", "5", "H">>),
            Str(<<"P", "T", "5", "M", "1", "H">>), Num(5), Num(0)}

\* Yields: a run of x, then digits (or none), then a tail.
YieldDigits == {<<>>, <<"4">>, <<"1", "2">>, <<"0", "7">>}
YieldTails == {<<>>, <<" ", "p">>, <<" ", "p", "5">>}
YieldText(n, d, tail) == Rep("x", n) \o d \o tail
YieldPrefixes == {0, 7} \cup Around(ServingsTextLimit)
YieldInputs ==
    {Str(YieldText(n, d, tail)) :
        n \in YieldPrefixes, d \in YieldDigits, tail \in YieldTails}
      \cup {Undef, Null, Num(4), Num(0)}

NameInputs ==
    {Str(Rep("n", n)) : n \in {0, 1} \cup Around(NameLimit)}
      \cup {Undef, Null, Str(<<" ">>), Num(3), Num(0)}
DescriptionInputs ==
    {Str(Rep("d", n)) : n \in {0, 1} \cup Around(DescriptionLimit)}
      \cup {Undef, Null, Str(<<" ">>), Num(3)}

\* The RecipeData records of the calls: each family varies the fields of one
\* part of the payload.
RecipeInputs ==
    {[BaseRecipe EXCEPT !.recipeInstructions = ins, !.recipeIngredient = ing] :
        ins \in InstructionInputs,
        ing \in {Arr(<<Str(<<"x", ":">>), Str(<<"a">>)>>)}}
    \cup
    {[BaseRecipe EXCEPT !.recipeInstructions = ins, !.recipeIngredient = ing] :
        ins \in {Undef, Arr(<<Str(<<"a">>), Obj(Str(<<"b">>))>>)},
        ing \in IngredientInputs}
    \cup
    {[BaseRecipe EXCEPT !.keywords = kw, !.recipeCategory = cc[1],
                        !.recipeCuisine = cc[2]] :
        kw \in KeywordInputs, cc \in CategoryCuisineInputs}
    \cup
    {[BaseRecipe EXCEPT !.prepTime = prep, !.cookTime = cook] :
        prep \in DurationInputs,
        cook \in {Undef, Str(<<"P", "T", "1", "M">>), Str(<<"P", "T", "0", "S">>)}}
    \cup
    {[BaseRecipe EXCEPT !.recipeYield = y] : y \in YieldInputs}
    \cup
    {[BaseRecipe EXCEPT !.name = n, !.description = d] :
        n \in NameInputs, d \in DescriptionInputs}

ValidUrl == <<"h", "t", "t", "p", ":", "/", "/", "t">>
UrlInputs ==
    {ValidUrl, ValidUrl \o <<"/">>, <<" ">> \o ValidUrl \o <<"/", "/", " ">>,
     <<"h", "t", "t", "p", "s", ":", "/", "/", "t">>,
     <<"f", "t", "p", ":", "/", "/", "x">>, <<"t">>, <<" ">>,
     <<"H", "T", "T", "P", ":", "/", "/", "t">>}
ApiKeyInputs == {<<"k", "1">>, <<"k", "2">>}

\* What the server (or the network) answers to the request.
Response(status, body) == [kind |-> "response", status |-> status, body |-> body]
Rejection(error) == [kind |-> "rejection", error |-> error]
JsonBody(v) == [kind |-> "json", value |-> v]
TextBody(text) == [kind |-> "text", text |-> text]
Entry(k, v) == [k |-> k, v |-> v]
NameTooLong == Entries(<<Entry(<<"name">>, Arr(<<Str(<<"too long">>)>>))>>)
BodyInputs ==
    {JsonBody(NameTooLong),
     JsonBody(Entries(<<Entry(<<"name">>, Arr(<<Str(<<"too long">>),
                                               Str(<<"required">>)>>)),
                        Entry(<<"steps">>, Str(<<"bad">>))>>)),
     JsonBody(Entries(<<Entry(<<"name">>, Arr(<<Str(<<"too long">>),
                                               Str(<<"required">>)>>)),
                        Entry(<<"steps">>, Arr(<<Str(<<"bad">>)>>))>>)),
     JsonBody(Entries(<<Entry(<<"detail">>, Str(<<"Not allowed">>))>>)),
     JsonBody(Entries(<<Entry(<<"nutrition">>,
                              Entries(<<Entry(<<"fats">>, Str(<<"nan">>))>>))>>)),
     JsonBody(Entries(<<Entry(<<"name">>, Null)>>)),
     JsonBody(Entries(<<>>)),
     JsonBody(Arr(<<>>)),
     JsonBody(Arr(<<Str(<<"bad">>)>>)),
     JsonBody(Str(<<"oops">>)),
     JsonBody(Null),
     JsonBody(Num(0)),
     TextBody(<<"<html>">>),
     TextBody(<<>>)}
StatusInputs == {200, 201, 204, 299, 300, 400, 401, 403, 404, 500}
\* The TypeErrors fetch rejects with when no response arrives (connection
\* refused, DNS failure, CORS rejection): the browsers word them differently.
TransportFailures ==
    {Err("TypeError", <<"Failed to fetch">>),
     Err("TypeError", <<"NetworkError", " when attempting to fetch resource.">>),
     Err("TypeError", <<"Load failed">>)}
\* The other failures of fetch: the TypeError of a request it will not make
\* (a header value it does not accept), and a thrown value that is no Error.
RejectionInputs ==
    TransportFailures
      \cup {Err("TypeError", <<"Failed to execute 'fetch' on 'Window': ", "Invalid value">>),
            Err("thrown value", <<"boom">>)}
ReplyInputs ==
    {Response(st, b) : st \in StatusInputs, b \in BodyInputs}
      \cup {Rejection(e) : e \in RejectionInputs}

\* The replies and the recipes of a caller that exports the same recipe
\* again, with whatever settings the form then holds.
RetryReplies ==
    {Response(201, TextBody(<<>>)), Response(400, JsonBody(NameTooLong)),
     Rejection(Err("TypeError", <<"Failed to fetch">>))}
FullRecipe ==
    [name |-> Str(<<"R">>), description |-> Str(<<"d">>),
     recipeIngredient |-> Arr(<<Str(<<"a">>), Str(<<"x", ":">>)>>),
     recipeInstructions |-> Arr(<<Str(<<"a">>), Obj(Str(<<"b">>))>>),
     prepTime |-> Str(<<"P", "T", "5", "M">>),
     cookTime |-> Str(<<"P", "T", "1", "H">>),
     recipeYield |-> Str(<<"4">>),
     recipeCategory |-> Str(<<"D">>), recipeCuisine |-> Str(<<"e", " ", "f">>),
     keywords |-> Str(<<"d", ",", "D">>)]
RetryRecipes ==
    {BaseRecipe, FullRecipe,
     [BaseRecipe EXCEPT !.recipeInstructions = Arr(<<Null>>)],
     [BaseRecipe EXCEPT !.recipeIngredient = Arr(<<Str(ForTheSauce)>>)],
     [FullRecipe EXCEPT !.name = Undef, !.recipeYield = Num(2)],
     [FullRecipe EXCEPT !.keywords = Arr(<<Str(<<"D">>)>>)]}

\* -------------------------------------------------------------------- state
VARIABLES
    recipeData,      \* the RecipeData of the call
    tandoorBaseUrl,  \* the base URL of the call
    apiKey,          \* the API key of the call
    reply,           \* what the network will answer to the request
    pc,              \* "idle", "fetching", "resolved" or "rejected"
    request,         \* the request given to fetch (NoRequest before it)
    fetchCalls,      \* how many times fetch was called
    thrown,          \* the error the call rejected with (NoError if none)
    calls,           \* how many times exportToTandoor was called
    bodyReads,       \* how many times the call read the response's body
    sentRequests,    \* the requests made so far, in order
    display,         \* what the text formatter has returned for recipeData
    envApiKey,       \* process.env.API_KEY of the extraction service
    extractPc,       \* "idle", "generating" or "settled"
    generateContentCalls, \* the requests given to generateContent, in order
    response,        \* what generateContent resolved or rejected with
    extracted,       \* what extractRecipeFromImage returned or threw
    isTandoorModalOpen, \* RecipeDisplay's flag: the export modal is mounted
    modal,           \* the state of the mounted TandoorExportModal
    opens,           \* how many times the modal was opened
    pendingExports,  \* the calls of onExport that have not settled
    app,             \* the state of App (lines 12-22)
    uploads,         \* the calls of handleImageUpload that have not ended
    lastUpload       \* the call of handleImageUpload that ended last

exportVars == <<recipeData, tandoorBaseUrl, apiKey, reply, pc, request,
                fetchCalls, thrown, calls, bodyReads, sentRequests>>
formatVars == <<display>>
extractVars == <<envApiKey, extractPc, generateContentCalls, response,
                 extracted>>

modalVars == <<isTandoorModalOpen, modal, opens, pendingExports>>

\* The state of the other parts of the application.
appVars == <<app, uploads, lastUpload>>
uiVars == <<formatVars, extractVars, modalVars, appVars>>
othersThanFormat == <<exportVars, extractVars, modalVars, appVars>>
othersThanExtract == <<exportVars, formatVars, modalVars, appVars>>
othersThanModal == <<exportVars, formatVars, extractVars, appVars>>
othersThanApp == <<exportVars, formatVars, extractVars, modalVars>>

vars == <<recipeData, tandoorBaseUrl, apiKey, reply, pc, request, fetchCalls,
          thrown, calls, bodyReads, sentRequests, uiVars>>

\* The formatter has not been called.
Pending == [state |-> "pending"]
NotFormatted == [duration |-> Pending, text |-> Pending]
FormatIdle == display = NotFormatted

\* The extraction service has not been called.
ConfiguredKey == Str(<<"g", "1">>)
NoResponse == [kind |-> "none"]
ExtractIdle ==
    /\ envApiKey = ConfiguredKey
    /\ extractPc = "idle"
    /\ generateContentCalls = <<>>
    /\ response = NoResponse
    /\ extracted = Pending

\* The state of a modal that has just been mounted (lines 17-21), as the
\* instance-th one.
FreshModal(instance) ==
    [instance |-> instance, tandoorUrl |-> <<>>, apiKey |-> <<>>,
     isLoading |-> FALSE, error |-> Null, success |-> Null]

\* The export modal has not been opened.
ModalIdle ==
    /\ isTandoorModalOpen = FALSE
    /\ modal = FreshModal(0)
    /\ opens = 0
    /\ pendingExports = {}

\* The state of App when it is mounted (lines 12-22), the checkbox having
\* the given value.
FreshApp(shouldGenerateDishImage) ==
    [selectedFile |-> Null, imagePreviewUrl |-> Null, recipeData |-> Null,
     isLoading |-> FALSE, error |-> Null,
     shouldGenerateDishImage |-> shouldGenerateDishImage,
     generatedDishImageUrl |-> Null, isGeneratingDishImage |-> FALSE,
     dishImageError |-> Null]
NoUpload == [pc |-> "none"]

\* Nothing has been uploaded.
AppIdle ==
    /\ app = FreshApp(TRUE)
    /\ uploads = <<>>
    /\ lastUpload = NoUpload

\* The other parts of the application before anything is done with them.
UiIdle ==
    /\ FormatIdle
    /\ ExtractIdle
    /\ ModalIdle
    /\ AppIdle

\* No export has been called.
ExportIdle ==
    /\ pc = "idle"
    /\ request = NoRequest
    /\ fetchCalls = 0
    /\ thrown = NoError
    /\ calls = 0
    /\ bodyReads = 0
    /\ sentRequests = <<>>

\* The state before the first call.
NothingDone ==
    /\ ExportIdle
    /\ UiIdle

Init ==
    /\ \/ /\ recipeData \in RecipeInputs
          /\ tandoorBaseUrl = ValidUrl
          /\ apiKey = <<"k", "1">>
          /\ reply = Response(201, TextBody(<<>>))
       \/ /\ recipeData = BaseRecipe
          /\ tandoorBaseUrl \in UrlInputs
          /\ apiKey \in ApiKeyInputs
          /\ reply \in ReplyInputs
    /\ NothingDone

\* A request body that takes a field from the settings of the call.
RequestBodyMutant(rd) ==
    [TandoorPayload(rd) EXCEPT !.source_url = Str(tandoorBaseUrl)]

\* body: JSON.stringify(tandoorPayload).  The body is kept as the payload
\* object: two serialisations are equal exactly when the objects are.
RequestBody(rd) == TandoorPayload(rd)

\* exportToTandoor up to its await of fetch (lines 48-196).
Call ==
    /\ pc = "idle"
    /\ calls' = calls + 1
    /\ IF InvalidUrl(tandoorBaseUrl)
       THEN /\ pc' = "rejected"
            /\ thrown' = InvalidUrlError
            /\ UNCHANGED <<request, fetchCalls, sentRequests>>
       ELSE IF PayloadThrows(recipeData)
       THEN /\ pc' = "rejected"
            /\ thrown' = PayloadTypeError
            /\ UNCHANGED <<request, fetchCalls, sentRequests>>
       ELSE /\ pc' = "fetching"
            /\ request' = [url |-> ApiUrl(tandoorBaseUrl),
                           method |-> "POST",
                           authorization |-> <<"Bearer ">> \o apiKey,
                           body |-> RequestBody(recipeData)]
            /\ fetchCalls' = fetchCalls + 1
            /\ sentRequests' = Append(sentRequests, request')
            /\ UNCHANGED thrown
    /\ UNCHANGED <<recipeData, tandoorBaseUrl, apiKey, reply, bodyReads>>
    /\ UNCHANGED uiVars

\* The reads of the body of a response that is not ok: response.json(), and
\* response.text() when the inner try has thrown.
ErrorBodyReads(body) ==
    IF body.kind = "text" \/ (body.value.t \in {"object", "array"}
                              /\ FieldErrorsThrows(body.value))
    THEN 2 ELSE 1

\* fetch resolves with a response (lines 198-235, and the rethrow of 241).
FetchResolves ==
    /\ pc = "fetching"
    /\ reply.kind = "response"
    /\ IF Ok(reply.status)
       THEN /\ pc' = "resolved"
            /\ UNCHANGED <<thrown, bodyReads>>
       ELSE /\ pc' = "rejected"
            /\ bodyReads' = ErrorBodyReads(reply.body)
            /\ thrown' = CaughtError(
                   Err("Error", StatusMessage(reply.status, reply.body)))
    /\ UNCHANGED <<recipeData, tandoorBaseUrl, apiKey, reply, request,
                   fetchCalls, calls, sentRequests>>
    /\ UNCHANGED uiVars

\* fetch rejects (lines 237-245).
FetchRejects ==
    /\ pc = "fetching"
    /\ reply.kind = "rejection"
    /\ pc' = "rejected"
    /\ thrown' = CaughtError(reply.error)
    /\ UNCHANGED <<recipeData, tandoorBaseUrl, apiKey, reply, request,
                   fetchCalls, calls, bodyReads, sentRequests>>
    /\ UNCHANGED uiVars

Next == Call \/ FetchResolves \/ FetchRejects

Spec == Init /\ [][Next]_vars

\* The export form is submitted again once the call has settled: the same
\* recipe, with the URL and the key the form holds then, and a new answer
\* of the network.
ExportAgain ==
    /\ pc \in {"resolved", "rejected"}
    /\ calls < MaxCalls
    /\ tandoorBaseUrl' \in UrlInputs
    /\ apiKey' \in ApiKeyInputs
    /\ reply' \in RetryReplies
    /\ pc' = "idle"
    /\ request' = NoRequest
    /\ thrown' = NoError
    /\ bodyReads' = 0
    /\ UNCHANGED <<recipeData, fetchCalls, calls, sentRequests>>
    /\ UNCHANGED uiVars

InitRetry ==
    /\ recipeData \in RetryRecipes
    /\ tandoorBaseUrl \in UrlInputs
    /\ apiKey \in ApiKeyInputs
    /\ reply \in RetryReplies
    /\ NothingDone

NextRetry == Call \/ FetchResolves \/ FetchRejects \/ ExportAgain

\* The calls of one recipe display: up to MaxCalls exports of its recipe.
SpecRetry == InitRetry /\ [][NextRetry]_vars

\* ------------------------------------------------------------------ claims
\* The payload of the request, once fetch has been called.
Sent == request # NoRequest
Payload == request.body

IsPrefix(a, b) == Len(a) <= Len(b) /\ \A i \in 1..Len(a) : a[i] = b[i]

\* The list a RecipeData field holds (empty when it holds no array).
ListOf(v) == IF v.t = "array" THEN v.a ELSE <<>>

\* C1: in the payload every step's order is its zero-based position in the
\* final steps sequence.
StepOrderIsPosition ==
    Sent => \A i \in 1..Len(Payload.steps) : Payload.steps[i].order = i - 1

\* C2: with a valid base URL the call reaches the network request, whatever
\* the optional fields of the RecipeData hold.
BuildNeverThrows ==
    (pc # "idle" /\ ~InvalidUrl(tandoorBaseUrl)) => fetchCalls = 1

\* An instruction entry of the documented shapes: a plain string or a
\* structured step with a string text; and the text it carries.
WellFormedEntry(e) ==
    e.t = "string" \/ (e.t = "object" /\ e.text.t = "string")
EntryText(e) == IF e.t = "string" THEN e.s ELSE e.text.s
NonBlank(text) == \E i \in 1..Len(text) : ~IsSpace(text[i])

\* C3: the steps are never empty: one placeholder step when no entry has a
\* non-blank text, else one step per non-blank entry, in source order.
StepsNeverEmpty ==
    LET entries == ListOf(recipeData.recipeInstructions)
        texts == [i \in 1..Len(entries) |-> EntryText(entries[i])]
        kept == SelectSeq(texts, NonBlank)
    IN (Sent /\ \A i \in 1..Len(entries) : WellFormedEntry(entries[i])) =>
         IF kept = <<>>
         THEN /\ Len(Payload.steps) = 1
              /\ Payload.steps[1].instruction = NoInstructionsProvided
              /\ Payload.steps[1].order = 0
              /\ Payload.steps[1].type = "TEXT"
         ELSE /\ Len(Payload.steps) = Len(kept)
              /\ \A i \in 1..Len(kept) : Payload.steps[i].instruction = kept[i]

\* C4: steps[0].ingredients has one entry per ingredient line, in source
\* order, the i-th with order i; every other step has no ingredients.
IngredientsInFirstStep ==
    LET lines == ListOf(recipeData.recipeIngredient)
        got == Payload.steps[1].ingredients
    IN Sent =>
         /\ Len(Payload.steps) >= 1
         /\ Len(got) = Len(lines)
         /\ \A i \in 1..Len(lines) :
               /\ got[i].order = i - 1
               /\ IF got[i].is_header
                  THEN got[i].note = Trim(lines[i].s)
                  ELSE got[i].food.name
                         = Trim(SubSeq(lines[i].s, 1,
                                       Min(FoodNameLimit, Len(lines[i].s))))
         /\ \A j \in 2..Len(Payload.steps) : Payload.steps[j].ingredients = <<>>

IngredientsInFirstStepWitness ==
    /\ Sent
    /\ Len(Payload.steps) = 2
    /\ Len(Payload.steps[1].ingredients) = 2
    /\ Payload.steps[1].ingredients[1].is_header
    /\ ~Payload.steps[1].ingredients[2].is_header
    /\ Payload.steps[1].ingredients[2].order = 1

\* The trimmed tokens of a comma-joined text: the trimmed pieces between
\* consecutive boundaries (the start, each comma, the end).
TrimmedTokens(s) ==
    LET bounds == {0, Len(s) + 1} \cup {i \in 1..Len(s) : s[i] = ","}
    IN {Trim(SubSeq(s, i + 1, j - 1)) :
          <<i, j>> \in {b \in bounds \X bounds :
                          /\ b[1] < b[2]
                          /\ \A k \in bounds : ~(b[1] < k /\ k < b[2])}}

\* A field that is present: it holds a string.
TrimmedField(v) == IF v.t = "string" THEN {Trim(v.s)} ELSE {}

\* The strings the keywords are made from: the trimmed tokens of the
\* keywords field, the trimmed category and the trimmed cuisine.
KeywordStrings ==
    (IF recipeData.keywords.t = "string"
     THEN TrimmedTokens(recipeData.keywords.s) ELSE {})
      \cup TrimmedField(recipeData.recipeCategory)
      \cup TrimmedField(recipeData.recipeCuisine)

KeywordNames == {Payload.keywords[i].name : i \in 1..Len(Payload.keywords)}

\* C5, as claimed: the keyword entries are exactly the distinct strings
\* obtained from the keywords, the category and the cuisine.
KeywordsAreTrimmedTokens ==
    Sent => /\ KeywordNames = KeywordStrings
            /\ Len(Payload.keywords) = Cardinality(KeywordStrings)

Clamp(text, limit) == [i \in 1..Min(limit, Len(text)) |-> text[i]]

\* C5, amended: there is one keyword entry per distinct non-empty string
\* obtained from the keywords, the category and the cuisine, named by the
\* first 128 characters of that string.
KeywordsAreNonEmptyTrimmedTokens ==
    LET strings == KeywordStrings \ {<<>>}
    IN Sent =>
         /\ Len(Payload.keywords) = Cardinality(strings)
         /\ \A t \in strings :
               Cardinality({i \in 1..Len(Payload.keywords) :
                              Payload.keywords[i].name = Clamp(t, KeywordLimit)})
                 = Cardinality({u \in strings :
                                  Clamp(u, KeywordLimit) = Clamp(t, KeywordLimit)})

KeywordsAreNonEmptyTrimmedTokensWitness ==
    /\ Sent
    /\ recipeData.keywords = Str(<<"D", ",", " ", "d">>)
    /\ recipeData.recipeCategory = Str(<<"D">>)
    /\ recipeData.recipeCuisine = Undef
    /\ Len(Payload.keywords) = 2
    /\ KeywordNames = {<<"D">>, <<"d">>}

\* C6: the keywords of a payload are a set: no two entries carry the same
\* name, and every name has at most 128 characters.
KeywordNamesDistinct ==
    Sent => /\ \A i, j \in 1..Len(Payload.keywords) :
                  i # j => Payload.keywords[i].name # Payload.keywords[j].name
            /\ \A i \in 1..Len(Payload.keywords) :
                  Len(Payload.keywords[i].name) <= KeywordLimit

\* seconds / 60 rounded to the nearest integer.
Rounded(seconds) ==
    CHOOSE r \in 0..seconds : 60 * r - 30 <= seconds /\ seconds < 60 * r + 30

\* hours*60 + minutes + round(seconds/60), an absent component (-1) being 0.
TotalMinutes(h, m, s) ==
    (IF h < 0 THEN 0 ELSE h) * 60 + (IF m < 0 THEN 0 ELSE m)
      + (IF s < 0 THEN 0 ELSE Rounded(s))

\* What the duration parser is to return for a duration text.
ExpectedMinutes(h, m, s) ==
    IF TotalMinutes(h, m, s) = 0 THEN Null ELSE Num(TotalMinutes(h, m, s))

NoDuration(v) ==
    \/ v \in {Undef, Null, Str(<<>>)}
    \/ /\ v.t = "string"
       /\ ~\E i \in 1..(Len(v.s) - 1) : v.s[i] = "P" /\ v.s[i + 1] = "T"

\* C7: isoDurationToMinutes returns null for an absent, empty or
\* non-matching string, else hours*60 + minutes + round(seconds/60), and
\* null when that total is 0.
MinutesOfDuration ==
    /\ NoDuration(recipeData.prepTime) =>
          isoDurationToMinutes(recipeData.prepTime) = Null
    /\ recipeData.prepTime.t = "string" =>
          \A pre \in Affixes, h \in HourInputs, m \in MinuteInputs,
             s \in SecondInputs, suf \in Affixes :
             recipeData.prepTime = Str(DurationText(pre, h, m, s, suf)) =>
               isoDurationToMinutes(recipeData.prepTime)
                 = ExpectedMinutes(h, m, s)

MinutesOfDurationWitness ==
    /\ Sent
    /\ recipeData.prepTime = Str(<<"P", "T", "4", "5", "S">>)
    /\ isoDurationToMinutes(recipeData.prepTime) = Num(1)
    /\ Payload.working_time = 1

\* The field of the payload for a duration: present with the minutes when
\* the duration has a positive total, absent otherwise.
TimeField(key, v) ==
    /\ key \in DOMAIN Payload => Payload[key] \in Nat \ {0}
    /\ NoDuration(v) => key \notin DOMAIN Payload
    /\ v.t = "string" =>
          \A pre \in Affixes, h \in HourInputs, m \in MinuteInputs,
             s \in SecondInputs, suf \in Affixes :
             v = Str(DurationText(pre, h, m, s, suf)) =>
               IF TotalMinutes(h, m, s) = 0
               THEN key \notin DOMAIN Payload
               ELSE /\ key \in DOMAIN Payload
                    /\ Payload[key] = TotalMinutes(h, m, s)

\* C8: working_time and waiting_time are in the payload only with a
\* positive number of minutes, and are absent when the duration is missing,
\* unparsable or zero.
TimesOnlyWhenPositive ==
    Sent => /\ TimeField("working_time", recipeData.prepTime)
            /\ TimeField("waiting_time", recipeData.cookTime)

TimesOnlyWhenPositiveWitness ==
    /\ Sent
    /\ recipeData.prepTime = Str(<<"P", "T", "1", "H", "3", "0", "M">>)
    /\ recipeData.cookTime = Str(<<"P", "T", "0", "S">>)
    /\ Payload.working_time = 90
    /\ "waiting_time" \notin DOMAIN Payload

\* The number a run of digits of the yield inputs stands for.
DigitsValue(d) ==
    CASE d = <<"4">> -> 4
      [] d = <<"1", "2">> -> 12
      [] d = <<"0", "7">> -> 7
      [] d = <<"5">> -> 5

\* The first run of digits of the yield text made of n, d and tail: d when
\* there is one, else the digits of the tail.
ExpectedServings(d, tail) ==
    IF d # <<>> THEN Num(DigitsValue(d))
    ELSE IF \E i \in 1..Len(tail) : IsDigit(tail[i])
    THEN Num(DigitsValue(SelectSeq(tail, IsDigit)))
    ELSE Null

\* C9: parseServings returns the first run of digits of the whole yield
\* text as servings (null without digits or without a text) and the first
\* 32 characters of the text as servings_text; the payload carries both.
ServingsFromWholeText ==
    /\ recipeData.recipeYield \in {Undef, Null, Str(<<>>)} =>
          parseServings(recipeData.recipeYield)
            = [servings |-> Null, servings_text |-> <<>>]
    /\ recipeData.recipeYield.t = "string" =>
          \A n \in YieldPrefixes, d \in YieldDigits, tail \in YieldTails :
             recipeData.recipeYield = Str(YieldText(n, d, tail)) =>
               /\ parseServings(recipeData.recipeYield)
                    = [servings |-> ExpectedServings(d, tail),
                       servings_text |->
                           Clamp(YieldText(n, d, tail), ServingsTextLimit)]
               /\ Sent =>
                    /\ Payload.servings_text
                         = Clamp(YieldText(n, d, tail), ServingsTextLimit)
                    /\ IF ExpectedServings(d, tail) = Null
                       THEN "servings" \notin DOMAIN Payload
                       ELSE /\ "servings" \in DOMAIN Payload
                            /\ Payload.servings = ExpectedServings(d, tail).n

ServingsFromWholeTextWitness ==
    /\ Sent
    /\ recipeData.recipeYield
         = Str(YieldText(ServingsTextLimit + 1, <<"1", "2">>, <<" ", "p", "5">>))
    /\ Payload.servings = 12
    /\ Payload.servings_text = Rep("x", ServingsTextLimit)

\* A text clamped to a limit: its first `limit` characters.
ClampOf(value, source, limit) ==
    /\ IsPrefix(value, source)
    /\ Len(value) = Min(limit, Len(source))

NameWithinLimits ==
    /\ Len(Payload.name) <= NameLimit
    /\ IF recipeData.name.t # "string" \/ recipeData.name.s = <<>>
       THEN Payload.name = UntitledRecipe
       ELSE ClampOf(Payload.name, recipeData.name.s, NameLimit)

DescriptionWithinLimits ==
    IF recipeData.description.t # "string" \/ recipeData.description.s = <<>>
    THEN Payload.description = Null
    ELSE /\ Payload.description.t = "string"
         /\ Len(Payload.description.s) <= DescriptionLimit
         /\ ClampOf(Payload.description.s, recipeData.description.s,
                    DescriptionLimit)

ServingsTextWithinLimits ==
    /\ Len(Payload.servings_text) <= ServingsTextLimit
    /\ recipeData.recipeYield.t = "string" =>
          ClampOf(Payload.servings_text, recipeData.recipeYield.s,
                  ServingsTextLimit)

\* C10, as claimed: name, description, servings_text and the food names are
\* within their limits, with the documented defaults, and each clamped
\* value is a prefix of its source text.
ClampedValuesArePrefixes ==
    LET lines == ListOf(recipeData.recipeIngredient)
        got == Payload.steps[1].ingredients
    IN Sent =>
         /\ NameWithinLimits
         /\ DescriptionWithinLimits
         /\ ServingsTextWithinLimits
         /\ \A i \in 1..Len(got) :
               ~got[i].is_header =>
                  /\ Len(got[i].food.name) <= FoodNameLimit
                  /\ IsPrefix(got[i].food.name, lines[i].s)

\* C10, amended: as claimed, but a food name is the first 128 characters of
\* its line without the white space around them, so it is a prefix of the
\* line without its leading white space.
ClampedValuesWithinLimits ==
    LET lines == ListOf(recipeData.recipeIngredient)
        got == Payload.steps[1].ingredients
    IN Sent =>
         /\ NameWithinLimits
         /\ DescriptionWithinLimits
         /\ ServingsTextWithinLimits
         /\ \A i \in 1..Len(got) :
               ~got[i].is_header =>
                  /\ Len(got[i].food.name) <= FoodNameLimit
                  /\ got[i].food.name = Trim(Clamp(lines[i].s, FoodNameLimit))
                  /\ \E k \in 0..Len(lines[i].s) :
                        /\ \A j \in 1..k : IsSpace(lines[i].s[j])
                        /\ IsPrefix(got[i].food.name,
                                    SubSeq(lines[i].s, k + 1, Len(lines[i].s)))

ClampedValuesWithinLimitsWitness ==
    /\ Sent
    /\ recipeData.name = Str(Rep("n", NameLimit + 1))
    /\ Payload.name = Rep("n", NameLimit)
    /\ recipeData.description = Str(Rep("d", DescriptionLimit + 1))
    /\ Payload.description = Str(Rep("d", DescriptionLimit))

\* The upper-case form of a lower-case text.
Capitals(p) ==
    [i \in 1..Len(p) |->
       IF \E j \in 1..26 : LowerCase[j] = p[i]
       THEN UpperCase[CHOOSE j \in 1..26 : LowerCase[j] = p[i]]
       ELSE p[i]]

\* The text starts with the (lower-case) phrase, in whatever case.
StartsIgnoringCase(t, phrase) ==
    /\ Len(phrase) <= Len(t)
    /\ \A i \in 1..Len(phrase) : t[i] \in {phrase[i], Capitals(phrase)[i]}

\* A header text: it starts with "For the ...:" (the colon on the line the
\* phrase is on), "Sauce:", "Marinade:" or "Dressing:", or its last
\* character is a colon.
HeaderText(t) ==
    \/ /\ StartsIgnoringCase(t, <<"f", "o", "r", " ", "t", "h", "e", " ">>)
       /\ \E k \in 9..Len(t) :
             t[k] = ":" /\ \A j \in 9..(k - 1) : t[j] # "\n"
    \/ StartsIgnoringCase(t, <<"s", "a", "u", "c", "e", ":">>)
    \/ StartsIgnoringCase(t, <<"m", "a", "r", "i", "n", "a", "d", "e", ":">>)
    \/ StartsIgnoringCase(t, <<"d", "r", "e", "s", "s", "i", "n", "g", ":">>)
    \/ (t # <<>> /\ t[Len(t)] = ":")

\* The fields of a header ingredient and of a regular one.
IsHeaderIngredient(e, note) ==
    /\ e.food = Null
    /\ e.note = note
    /\ e.is_header = TRUE
    /\ e.no_amount = FALSE
IsRegularIngredient(e, name) ==
    /\ e.food # Null
    /\ e.food.name = name
    /\ e.note = <<>>
    /\ e.is_header = FALSE
    /\ e.no_amount = TRUE

\* The ingredient lines of the recipe and the ingredients made from them.
SentLines ==
    IF Sent THEN ListOf(recipeData.recipeIngredient) ELSE <<>>
SentIngredients ==
    IF Sent THEN Payload.steps[1].ingredients ELSE <<>>

\* C11, as claimed: a line is emitted as a header ingredient exactly when
\* its trimmed text is a header text, and as a regular ingredient whose
\* food is named by the line otherwise; both have unit "g" and amount "0".
LinesClassifiedNamedByLine ==
    /\ Len(SentIngredients) = Len(SentLines)
    /\ \A i \in 1..Len(SentLines) :
          /\ SentIngredients[i].unit.name = <<"g">>
          /\ SentIngredients[i].amount = <<"0">>
          /\ IF HeaderText(Trim(SentLines[i].s))
             THEN IsHeaderIngredient(SentIngredients[i], Trim(SentLines[i].s))
             ELSE IsRegularIngredient(SentIngredients[i], SentLines[i].s)

\* C11, amended: as claimed, but the food of a regular ingredient is named
\* by the first 128 characters of the line without the white space around
\* them.
LinesClassified ==
    /\ Len(SentIngredients) = Len(SentLines)
    /\ \A i \in 1..Len(SentLines) :
          /\ SentIngredients[i].unit.name = <<"g">>
          /\ SentIngredients[i].amount = <<"0">>
          /\ IF HeaderText(Trim(SentLines[i].s))
             THEN IsHeaderIngredient(SentIngredients[i], Trim(SentLines[i].s))
             ELSE IsRegularIngredient(SentIngredients[i],
                                      Trim(Clamp(SentLines[i].s, FoodNameLimit)))

\* An upper-case lead-in before other text was sent as a header, and a line
\* with white space around it as a regular ingredient.
LinesClassifiedWitness ==
    /\ Len(SentLines) = 2
    /\ SentLines[1].s = <<"S", "A", "U", "C", "E", ":", "x">>
    /\ SentIngredients[1].is_header
    /\ SentLines[2].s = <<" ", "a", " ">>
    /\ SentIngredients[2].food.name = <<"a">>

StartsAfterSpaces(text, prefix) ==
    \E k \in 0..Len(text) :
       /\ \A j \in 1..k : IsSpace(text[j])
       /\ k + Len(prefix) <= Len(text)
       /\ \A j \in 1..Len(prefix) : text[k + j] = prefix[j]

\* The base URL has one of the two accepted schemes.
HasHttpScheme ==
    \/ StartsAfterSpaces(tandoorBaseUrl, <<"h", "t", "t", "p", ":", "/", "/">>)
    \/ StartsAfterSpaces(tandoorBaseUrl,
                         <<"h", "t", "t", "p", "s", ":", "/", "/">>)

\* C13: a call whose base URL, trimmed, starts with neither "http://" nor
\* "https://" is rejected with the invalid-URL error, and makes no request,
\* whatever the recipe (a malformed one too) and the API key.
InvalidUrlRejected ==
    (pc # "idle" /\ ~HasHttpScheme) =>
        /\ pc = "rejected"
        /\ thrown.name = "Error"
        /\ thrown.message =
             <<"Invalid Tandoor URL: Must start with http:// or https://">>
        /\ request = NoRequest
        /\ fetchCalls < calls

\* The second export, to an ftp URL with the second key, was rejected
\* with the invalid-URL error after a first export that made its request.
InvalidUrlRejectedWitness ==
    /\ pc = "rejected"
    /\ tandoorBaseUrl = <<"f", "t", "p", ":", "/", "/", "x">>
    /\ apiKey = <<"k", "2">>
    /\ calls = 2
    /\ fetchCalls = 1
    /\ thrown = InvalidUrlError

\* The call was rejected because of the status of the response it got.
RejectedWithStatus ==
    pc = "rejected" /\ Sent /\ reply.kind = "response"

\* The text occurs in the message.
Occurs(text, message) ==
    \E i \in 0..(Len(message) - Len(text)) :
       \A j \in 1..Len(text) : message[i + j] = text[j]

\* C14: a response with status 401 or 403 is reported with the fixed
\* authentication message, the same for every API key and response body,
\* and the message does not contain the API key.
AuthenticationMessageFixed ==
    (RejectedWithStatus /\ reply.status \in {401, 403}) =>
        /\ thrown.name = "Error"
        /\ thrown.message =
             <<"Authentication failed. Please check your Tandoor API Key.">>
        /\ ~Occurs(apiKey, thrown.message)

\* A 403 whose body has a detail, answered to the second key.
AuthenticationMessageFixedWitness ==
    /\ RejectedWithStatus
    /\ reply.status = 403
    /\ reply.body = JsonBody(Entries(<<Entry(<<"detail">>,
                                             Str(<<"Not allowed">>))>>))
    /\ apiKey = <<"k", "2">>
    /\ thrown.message = AuthenticationFailed

\* The decimal digits of a three-digit status code.
StatusDigits(status) ==
    LET digit(n) == CASE n = 0 -> "0" [] n = 1 -> "1" [] n = 2 -> "2"
                      [] n = 3 -> "3" [] n = 4 -> "4" [] n = 5 -> "5"
                      [] n = 6 -> "6" [] n = 7 -> "7" [] n = 8 -> "8"
                      [] n = 9 -> "9"
    IN <<digit(status \div 100), digit((status \div 10) % 10),
         digit(status % 10)>>

\* The body is an object that maps each field to a list of messages.
FieldsToMessageLists(body) ==
    /\ body.kind = "json"
    /\ body.value.t = "object"
    /\ \A i \in 1..Len(body.value.entries) :
          /\ body.value.entries[i].v.t = "array"
          /\ \A j \in 1..Len(body.value.entries[i].v.a) :
                body.value.entries[i].v.a[j].t = "string"

\* The texts, with the separator between each two of them.
Separated(texts, separator) ==
    LET RECURSIVE from(_)
        from(i) == IF i > Len(texts) THEN <<>>
                   ELSE IF i = Len(texts) THEN texts[i]
                   ELSE texts[i] \o separator \o from(i + 1)
    IN from(1)

\* "field: message, message" for each field, the parts separated by "; ".
FieldSummary(body) ==
    LET entries == body.value.entries
        part(i) == entries[i].k \o <<": ">>
                     \o Separated([j \in 1..Len(entries[i].v.a) |->
                                     entries[i].v.a[j].s], <<", ">>)
    IN Separated([i \in 1..Len(entries) |-> part(i)], <<"; ">>)

\* C15: a response with status 400, or any status that is neither a success
\* nor 401, 403 or 404, whose body maps fields to message lists is reported
\* with a message that contains the status code and the "field: message,
\* message" parts of the fields separated by "; ".
FieldErrorsReported ==
    (/\ RejectedWithStatus
     /\ reply.status \notin {401, 403, 404}
     /\ FieldsToMessageLists(reply.body)) =>
        /\ thrown.name = "Error"
        /\ Occurs(StatusDigits(reply.status), thrown.message)
        /\ Occurs(FieldSummary(reply.body), thrown.message)
        /\ reply.body = JsonBody(NameTooLong) =>
              Occurs(<<"name", ": ", "too long">>, thrown.message)

\* A 400 whose body has two fields, the first with two messages.
FieldErrorsReportedWitness ==
    /\ RejectedWithStatus
    /\ reply.status = 400
    /\ FieldsToMessageLists(reply.body)
    /\ Occurs(<<"name", ": ", "too long", ", ", "required", "; ",
                "steps", ": ", "bad">>, thrown.message)

\* The message ends with the text.
EndsWith(message, text) ==
    /\ Len(text) <= Len(message)
    /\ SubSeq(message, Len(message) - Len(text) + 1, Len(message)) = text

\* The body is an object whose only field is a `detail` text.
OnlyDetail(body) ==
    /\ body.kind = "json"
    /\ body.value.t = "object"
    /\ Len(body.value.entries) = 1
    /\ body.value.entries[1].k = <<"detail">>
    /\ body.value.entries[1].v.t = "string"

\* C16: the detail of a failed response is the field summary when the body
\* maps fields to messages; else the body's `detail`; else the serialized
\* body; else, for a body that is no structured data, the response's text.
\* A body that only has a `detail` is reported by that detail, and a body
\* that cannot be parsed by its text.
DetailByFallbackChain ==
    (RejectedWithStatus /\ reply.status \notin {401, 403, 404}) =>
        /\ (FieldsToMessageLists(reply.body)
              /\ reply.body.value.entries # <<>>) =>
              EndsWith(thrown.message,
                       <<" Details: {">> \o FieldSummary(reply.body) \o <<"}">>)
        /\ OnlyDetail(reply.body) =>
              EndsWith(thrown.message,
                       <<" Details: ">> \o reply.body.value.entries[1].v.s)
        /\ reply.body = JsonBody(Entries(<<>>)) =>
              EndsWith(thrown.message, <<" Details: ", "{}">>)
        /\ (reply.body.kind = "text" /\ reply.body.text # <<>>) =>
              EndsWith(thrown.message, reply.body.text)

\* The case a status that is no success falls in, and the kind of a message.
StatusCase(status) ==
    {c \in {"authentication", "validation", "not found", "other"} :
        \/ c = "authentication" /\ status \in {401, 403}
        \/ c = "validation" /\ status = 400
        \/ c = "not found" /\ status = 404
        \/ c = "other" /\ status \notin {400, 401, 403, 404}}
MessageKind(message) ==
    IF message = <<"Authentication failed. Please check your Tandoor API Key.">>
    THEN "authentication"
    ELSE IF message = <<"Tandoor API endpoint not found. Please check the Tandoor Instance URL.">>
    THEN "not found"
    ELSE IF message # <<>>
            /\ message[1] = "Tandoor API request failed with status "
    THEN "request failed"
    ELSE "none"

\* C17: a response with status 404 is reported with the fixed message that
\* names the Tandoor instance URL, whatever its body; every status that is
\* no success falls in exactly one of the cases 401/403, 400, 404 and other,
\* and the message is the one of that case.
NotFoundAndCasesDisjoint ==
    RejectedWithStatus =>
        /\ thrown.name = "Error"
        /\ Cardinality(StatusCase(reply.status)) = 1
        /\ \A c \in StatusCase(reply.status) :
              MessageKind(thrown.message) =
                 (IF c \in {"validation", "other"} THEN "request failed" ELSE c)
        /\ reply.status = 404 =>
              thrown.message = <<"Tandoor API endpoint not found. Please check the Tandoor Instance URL.">>
        /\ reply.status \notin {401, 403, 404} =>
              Occurs(StatusDigits(reply.status), thrown.message)

\* A 404 whose body has field errors.
NotFoundAndCasesDisjointWitness ==
    /\ RejectedWithStatus
    /\ reply.status = 404
    /\ reply.body = JsonBody(NameTooLong)
    /\ thrown.message = EndpointNotFound

\* The call was rejected because fetch was.
RejectedWithoutResponse ==
    pc = "rejected" /\ Sent /\ reply.kind = "rejection"

\* C18: every failure of the request at transport level is reported as the
\* network error: the guidance about the URL and CORS, then the original
\* message.
TransportFailureIsNetworkError ==
    (RejectedWithoutResponse /\ reply.error \in TransportFailures) =>
        /\ thrown.name = "Error"
        /\ thrown.message =
             <<"Network error or Tandoor instance unreachable. Check URL and CORS settings on your Tandoor instance if this is a self-hosted setup. Original: ">>
               \o reply.error.message

\* The message of the catch-all error for an original message.
UnexpectedExportMessage(original) ==
    <<"An unexpected error occurred during Tandoor export: ">> \o original

ExpectedUrl ==
    LET base == Trim(tandoorBaseUrl)
        cut == IF base # <<>> /\ base[Len(base)] = "/"
               THEN SubSeq(base, 1, Len(base) - 1) ELSE base
    IN cut \o <<"/", "a", "p", "i", "/", "r", "e", "c", "i", "p", "e", "/">>

\* The call has settled, and the answer to its request was a 2xx response.
Settled == pc \in {"resolved", "rejected"}
AnsweredWithSuccess ==
    Sent /\ reply.kind = "response" /\ reply.status \in 200..299

\* C20: a call makes at most one request, a POST to the base URL without
\* one trailing slash plus "/api/recipe/" with the bearer token, and never
\* a second one; it completes normally exactly when that request was
\* answered with a 2xx status, without reading the body of the response,
\* and is rejected with an error in every other case.
OneRequestThenSettles ==
    /\ fetchCalls <= calls
    /\ Len(sentRequests) = fetchCalls
    /\ Sent =>
          /\ request.method = "POST"
          /\ request.url = ExpectedUrl
          /\ request.authorization = <<"Bearer ">> \o apiKey
    /\ Settled => (pc = "resolved" <=> AnsweredWithSuccess)
    /\ pc = "resolved" => (bodyReads = 0 /\ thrown = NoError)
    /\ pc = "rejected" =>
          (thrown.name \in {"Error", "TypeError"} /\ thrown.message # <<>>)

\* A 204 with a body, answered to the request for a base URL with white
\* space around it and two slashes at its end: the call has completed.
OneRequestThenSettlesWitness ==
    /\ pc = "resolved"
    /\ reply = Response(204, JsonBody(NameTooLong))
    /\ tandoorBaseUrl = <<" ", "h", "t", "t", "p", ":", "/", "/", "t", "/", "/", " ">>
    /\ request.url = <<"h", "t", "t", "p", ":", "/", "/", "t", "/",
                       "/", "a", "p", "i", "/", "r", "e", "c", "i", "p", "e", "/">>
    /\ fetchCalls = 1

\* ------------------------------------------------- the formatter is called
\* The records given to the formatter: the durations, and the names, lists
\* and other fields on either side of its tests.
FormatNames ==
    {NoRecipeFound, UntitledRecipeName, Str(<<"R">>), Undef, Str(<<>>), Num(7),
     Str(<<"N", "o", " ", "R", "e", "c", "i", "p", "e">>)}
FormatIngredients ==
    {Undef, Null, Arr(<<>>), Arr(<<Str(<<"a">>)>>),
     Arr(<<Str(<<"a">>), Str(<<"x", ":">>)>>)}
FormatInstructions ==
    {Undef, Null, Arr(<<>>), Arr(<<Str(<<"a">>)>>), Arr(<<Obj(Str(<<"b">>))>>),
     Arr(<<Obj(Undef)>>), Arr(<<Obj(Str(<<>>))>>), Arr(<<Null>>),
     Arr(<<Str(<<"a">>), Obj(Undef), Str(<<"c">>)>>)}
Populated ==
    [BaseRecipe EXCEPT !.description = Str(<<"d">>),
                       !.recipeYield = Str(<<"4">>),
                       !.prepTime = Str(<<"P", "T", "1", "H">>),
                       !.cookTime = Str(<<"P", "T", "2", "H", "3", "0", "M">>),
                       !.recipeCategory = Str(<<"D">>),
                       !.recipeCuisine = Str(<<"e">>),
                       !.keywords = Str(<<"k", ",", "l">>)]
FormatInputs ==
    {[BaseRecipe EXCEPT !.prepTime = d] : d \in DurationInputs}
    \cup
    {[rest EXCEPT !.name = n, !.recipeIngredient = ing,
                  !.recipeInstructions = ins] :
        rest \in {BaseRecipe, Populated}, n \in FormatNames,
        ing \in FormatIngredients, ins \in FormatInstructions}
    \cup {Null}

\* What a call has returned, and that it has thrown.
Returned(value) == [state |-> "returned", value |-> value]
Threw == [state |-> "threw"]

\* RecipeDisplay computes recipeTextForDisplay.
FormatText ==
    /\ display.text = Pending
    /\ display' = [display EXCEPT !.text =
                     IF formatRecipeJsonToTextThrows(recipeData) THEN Threw
                     ELSE Returned(formatRecipeJsonToText(recipeData))]
    /\ UNCHANGED othersThanFormat

\* formatIsoDuration is called for the preparation time.
FormatDuration ==
    /\ display.duration = Pending
    /\ recipeData # Null
    /\ display' = [display EXCEPT !.duration =
                     IF formatIsoDurationThrows(recipeData.prepTime) THEN Threw
                     ELSE Returned(formatIsoDuration(recipeData.prepTime))]
    /\ UNCHANGED othersThanFormat

InitFormat ==
    /\ recipeData \in FormatInputs
    /\ tandoorBaseUrl = ValidUrl
    /\ apiKey = <<"k", "1">>
    /\ reply = Response(201, TextBody(<<>>))
    /\ NothingDone

NextFormat == FormatText \/ FormatDuration

SpecFormat == InitFormat /\ [][NextFormat]_vars

\* ------------------------------------------------- claims on the formatter
\* The text has the line: the message between two line breaks, or at an end
\* of the text.
HasLine(text, message) ==
    \E i \in 1..Len(text) :
       /\ text[i] = message
       /\ i = 1 \/ text[i - 1] = "\n"
       /\ i = Len(text) \/ text[i + 1] = "\n"

\* The list is absent or empty.
AbsentOrEmpty(list) == list \in {Undef, Null, Arr(<<>>)}

\* The record is named "No Recipe Found".
NamedNoRecipeFound ==
    /\ recipeData # Null
    /\ recipeData.name = Str(<<"N", "o", " ", "R", "e", "c", "i", "p", "e", " ", "F", "o", "u", "n", "d">>)

\* C21: a record named "No Recipe Found" is formatted as exactly "No recipe
\* could be identified in the image.", whatever its other fields; the text
\* of every other record does not contain that message, has the line "No
\* ingredients found." exactly when the ingredient list is absent or empty,
\* and the line "No instructions found." exactly when the instruction list
\* is.
SentinelAndFallbackLines ==
    /\ (NamedNoRecipeFound /\ display.text # Pending) =>
          display.text =
             Returned(<<"No recipe could be identified in the image.">>)
    /\ (recipeData # Null /\ ~NamedNoRecipeFound
          /\ display.text.state = "returned") =>
          /\ \A i \in 1..Len(display.text.value) :
                display.text.value[i]
                   # "No recipe could be identified in the image."
          /\ HasLine(display.text.value, "No ingredients found.")
                <=> AbsentOrEmpty(recipeData.recipeIngredient)
          /\ HasLine(display.text.value, "No instructions found.")
                <=> AbsentOrEmpty(recipeData.recipeInstructions)

\* A record named "No Recipe Found" with its lists and its other fields
\* filled has been formatted.
SentinelAndFallbackLinesWitness ==
    /\ NamedNoRecipeFound
    /\ recipeData.recipeIngredient = Arr(<<Str(<<"a">>)>>)
    /\ recipeData.recipeInstructions = Arr(<<Str(<<"a">>)>>)
    /\ recipeData.description = Str(<<"d">>)
    /\ display.text = Returned(NoRecipeIdentified)

\* The decimal numeral of a number below 100.
Numeral(n) ==
    LET digit(k) == CASE k = 0 -> "0" [] k = 1 -> "1" [] k = 2 -> "2"
                      [] k = 3 -> "3" [] k = 4 -> "4" [] k = 5 -> "5"
                      [] k = 6 -> "6" [] k = 7 -> "7" [] k = 8 -> "8"
                      [] k = 9 -> "9"
    IN IF n < 10 THEN <<digit(n)>> ELSE <<digit(n \div 10), digit(n % 10)>>

\* "1 hour", "2 hours": the count, then the singular for 1 and the plural
\* above.
Counted(n, singular) ==
    Numeral(n) \o <<" ">> \o singular \o (IF n = 1 THEN <<>> ELSE <<"s">>)

\* The text for hours and minutes (-1 for an absent component): the hours
\* part then the minutes part, without a part that is 0, and the original
\* text when both are.
HumanDuration(h, m, original) ==
    LET hours == IF h > 0 THEN <<Counted(h, <<"h", "o", "u", "r">>)>> ELSE <<>>
        minutes == IF m > 0 THEN <<Counted(m, <<"m", "i", "n", "u", "t", "e">>)>> ELSE <<>>
    IN IF hours \o minutes = <<>> THEN original
       ELSE Separated(hours \o minutes, <<" ">>)

\* C22: formatIsoDuration returns "" for an absent or empty input and a text
\* without "PT" as it is; else the hours part then the minutes part, a part
\* of 0 left out, "hour"/"minute" for 1 and the plural above 1, and the
\* original text when both parts are 0.
DurationAsHumanText ==
    (recipeData # Null /\ display.duration.state = "returned") =>
       /\ recipeData.prepTime \in {Undef, Null, Str(<<>>)} =>
             display.duration.value = <<>>
       /\ (recipeData.prepTime.t = "string"
             /\ NoDuration(recipeData.prepTime)) =>
             display.duration.value = recipeData.prepTime.s
       /\ recipeData.prepTime.t = "string" =>
             \A pre \in Affixes, h \in HourInputs, m \in MinuteInputs,
                s \in SecondInputs, suf \in Affixes :
                recipeData.prepTime = Str(DurationText(pre, h, m, s, suf)) =>
                   display.duration.value
                      = HumanDuration(h, m, recipeData.prepTime.s)
       /\ recipeData.prepTime = Str(<<"P", "T", "1", "H">>) =>
             display.duration.value = <<"1", " ", "h", "o", "u", "r">>

\* "PT2H30M" has been formatted as "2 hours 30 minutes".
DurationAsHumanTextWitness ==
    /\ recipeData # Null
    /\ recipeData.prepTime = Str(<<"P", "T", "2", "H", "3", "0", "M">>)
    /\ display.duration = Returned(<<"2", " ", "h", "o", "u", "r", "s", " ", "3", "0", " ", "m", "i", "n", "u", "t", "e", "s">>)

\* ------------------------------------------------------ the extraction service
TEXT_MODEL_NAME == "gemini-2.5-flash-preview-04-17"

\* The reply of the model: its text is a JSON text of a value, a text that is
\* no JSON, or nothing at all, alone or between the lines of a ``` fence.
JsonReply(value) == [kind |-> "json", value |-> value]
NotJsonReply == [kind |-> "not json"]
EmptyReply == [kind |-> "empty"]
ReplyText(fenced, content) == [fenced |-> fenced, content |-> content]

\* The object a JSON text denotes: a property that the text does not have
\* reads as undefined.  An array is an object too, without these properties.
Parsed(isArray, schema, name, recipeIngredient, recipeInstructions, dishImageDescription) ==
    [t |-> "object", isArray |-> isArray,
     context |-> schema, type |-> schema, name |-> name,
     recipeIngredient |-> recipeIngredient,
     recipeInstructions |-> recipeInstructions,
     dishImageDescription |-> dishImageDescription]

\* jsonStr after the fence was removed: the text between the fence lines
\* when there is a fence around a text that is not empty.
StripFence(text) ==
    IF text.fenced /\ text.content # EmptyReply
    THEN ReplyText(FALSE, text.content)
    ELSE text

\* JSON.parse(jsonStr) throws a SyntaxError unless jsonStr is a JSON text.
JsonParseThrows(jsonStr) == jsonStr.fenced \/ jsonStr.content.kind # "json"
JsonParse(jsonStr) == jsonStr.content.value

\* Reading a property of null throws, and so does, in the strict code of a
\* module, setting a property of a number or a string.
PatchThrows(parsedData) == parsedData.t # "object"

SchemaOrg == Str(<<"http://schema.org">>)
RecipeType == Str(<<"Recipe">>)

\* The defaults of lines 110-115.
Patched(parsedData) ==
    [parsedData EXCEPT
       !.context = IF ~Truthy(@) THEN SchemaOrg ELSE @,
       !.type = IF ~Truthy(@) THEN RecipeType ELSE @,
       !.name = IF ~Truthy(@) THEN UntitledRecipeName ELSE @,
       !.recipeIngredient = IF @.t # "array" THEN Arr(<<>>) ELSE @,
       !.recipeInstructions = IF @.t # "array" THEN Arr(<<>>) ELSE @,
       !.dishImageDescription = IF @ = Undef THEN Null ELSE @]

KeyNotConfigured ==
    Err("Error",
        <<"Gemini API Error: ", "API Key", " is not configured. Please ensure process.env.API_KEY is set in the environment.">>)
InvalidJsonFormat ==
    Err("Error",
        <<"The AI returned an invalid JSON format. The recipe might be too complex or the image unclear.">>)
TrimOfUndefined ==
    Err("TypeError",
        <<"Cannot read properties of undefined (reading 'trim')">>)

\* message.toLowerCase() includes "api key" or "api_key", or message
\* includes "quota".
MentionsKeyOrQuota(message) ==
    \E i \in 1..Len(message) :
       message[i] \in {"API key", "API Key", "api key", "API_KEY", "api_key",
                       "quota"}

\* The outer catch (lines 123-132).
ExtractionCaught(error) ==
    IF error.name = "thrown value"
    THEN Err("Error",
             <<"An unknown error occurred while communicating with the AI recipe extraction service.">>)
    ELSE IF MentionsKeyOrQuota(error.message)
    THEN Err("Error",
             <<"Gemini API Error: ">> \o error.message
               \o <<". Please check your API key (process.env.API_KEY) and quota.">>)
    ELSE Err("Error",
             <<"Failed to extract recipe via AI: ">> \o error.message)

Rejected(error) == [state |-> "rejected", error |-> error]

\* What the call settles with once generateContent has resolved with the
\* text (lines 100-121, and the outer catch around them).
ExtractionOutcome(text) ==
    IF text = Undef THEN Rejected(ExtractionCaught(TrimOfUndefined))
    ELSE LET jsonStr == StripFence(text)
         IN IF JsonParseThrows(jsonStr)
            THEN Rejected(ExtractionCaught(InvalidJsonFormat))
            ELSE IF PatchThrows(JsonParse(jsonStr))
            THEN Rejected(ExtractionCaught(InvalidJsonFormat))
            ELSE Returned(Patched(JsonParse(jsonStr)))

\* ---------------------------------------------------- inputs of the extraction
MimeTypes == {"image/png", "image/jpeg"}
EnvApiKeys == {Undef, Str(<<>>), ConfiguredKey}

ReplyNames ==
    {Undef, Null, Str(<<>>), Str(<<"S", "o", "u", "p">>), NoRecipeFound,
     Num(0), Num(7), Arr(<<>>)}
ReplyLists ==
    {Undef, Null, Arr(<<>>), Arr(<<Str(<<"a">>)>>), Str(<<"a">>)}
ReplyDescriptions == {Undef, Null, Str(<<>>), Str(<<"p", "i", "e">>)}
ReplyValues ==
    {Parsed(FALSE, schema, name, ingredients, instructions, description) :
        schema \in {Undef, SchemaOrg}, name \in ReplyNames,
        ingredients \in ReplyLists, instructions \in {Undef, Arr(<<>>)},
        description \in ReplyDescriptions}
      \cup {Parsed(FALSE, Undef, Str(<<"S">>), Arr(<<>>), instructions, Null) :
              instructions \in ReplyLists}
      \cup {Parsed(TRUE, Undef, Undef, Undef, Undef, Undef),
            Null, Num(7), Str(<<"S">>)}
ReplyTexts ==
    {ReplyText(fenced, content) :
        fenced \in BOOLEAN,
        content \in {NotJsonReply, EmptyReply}
                      \cup {JsonReply(value) : value \in ReplyValues}}
      \cup {Undef}
GenerateRejections ==
    {Err("Error", <<"API key", " not valid. Please pass a valid API key.">>),
     Err("Error", <<"You exceeded your current ", "quota">>),
     Err("Error", <<"Quota", " exceeded">>),
     Err("TypeError", <<"Failed to fetch">>),
     Err("thrown value", <<"x">>)}

\* ------------------------------------------------- the extraction is called
\* extractRecipeFromImage up to its await (lines 56-98): the key is checked
\* and the request is given to generateContent.
ExtractCall ==
    /\ extractPc = "idle"
    /\ IF ~Truthy(envApiKey)
       THEN /\ extractPc' = "settled"
            /\ extracted' = Rejected(KeyNotConfigured)
            /\ UNCHANGED generateContentCalls
       ELSE /\ \E mimeType \in MimeTypes :
                  generateContentCalls' =
                     Append(generateContentCalls,
                            [model |-> TEXT_MODEL_NAME,
                             mimeType |-> mimeType,
                             responseMimeType |-> "application/json"])
            /\ extractPc' = "generating"
            /\ UNCHANGED extracted
    /\ UNCHANGED <<envApiKey, response, othersThanExtract>>

\* generateContent resolves (lines 100-121).
GenerateContentResolves ==
    /\ extractPc = "generating"
    /\ \E text \in ReplyTexts :
          /\ response' = [kind |-> "resolved", text |-> text]
          /\ extracted' = ExtractionOutcome(text)
    /\ extractPc' = "settled"
    /\ UNCHANGED <<envApiKey, generateContentCalls, othersThanExtract>>

\* generateContent rejects (lines 123-132).
GenerateContentRejects ==
    /\ extractPc = "generating"
    /\ \E error \in GenerateRejections :
          /\ response' = [kind |-> "rejected", error |-> error]
          /\ extracted' = Rejected(ExtractionCaught(error))
    /\ extractPc' = "settled"
    /\ UNCHANGED <<envApiKey, generateContentCalls, othersThanExtract>>

InitExtract ==
    /\ recipeData = BaseRecipe
    /\ tandoorBaseUrl = ValidUrl
    /\ apiKey = <<"k", "1">>
    /\ reply = Response(201, TextBody(<<>>))
    /\ ExportIdle
    /\ FormatIdle
    /\ ModalIdle
    /\ AppIdle
    /\ envApiKey \in EnvApiKeys
    /\ extractPc = "idle"
    /\ generateContentCalls = <<>>
    /\ response = NoResponse
    /\ extracted = Pending

NextExtract == ExtractCall \/ GenerateContentResolves \/ GenerateContentRejects

SpecExtract == InitExtract /\ [][NextExtract]_vars

\* ------------------------------------------------- claims on the extraction
\* C23: every call of extractRecipeFromImage with a configured API key calls
\* generateContent exactly once, with the model name 'gemini-2.5-flash'.
OneCallOfGeminiFlash ==
    (extractPc # "idle" /\ Truthy(envApiKey)) =>
       /\ Len(generateContentCalls) = 1
       /\ generateContentCalls[1].model = "gemini-2.5-flash"

\* The part of C23 on the number of calls: one call, none without a key.
OneCallOfTheModel ==
    extractPc # "idle" =>
       Len(generateContentCalls) = IF Truthy(envApiKey) THEN 1 ELSE 0

\* The text of the reply, without its fence, is no JSON text.
NotValidJson(text) == text = Undef \/ JsonParseThrows(StripFence(text))

\* C30: a returned record has its defaults: the name is a non-empty string
\* ("Untitled Recipe" when the reply has none), the ingredient and the
\* instruction lists are arrays (empty when the reply has none or no array),
\* and dishImageDescription is not undefined; a reply that is not valid JSON
\* makes the call fail with an extraction error, without a record.
ReturnedRecordHasDefaults ==
    /\ extracted.state = "returned" =>
          LET replied == JsonParse(StripFence(response.text))
              record == extracted.value
          IN /\ record.name.t = "string" /\ record.name.s # <<>>
             /\ replied.name = Undef => record.name = UntitledRecipeName
             /\ record.recipeIngredient.t = "array"
             /\ replied.recipeIngredient.t # "array" =>
                   record.recipeIngredient = Arr(<<>>)
             /\ record.recipeInstructions.t = "array"
             /\ replied.recipeInstructions.t # "array" =>
                   record.recipeInstructions = Arr(<<>>)
             /\ record.dishImageDescription # Undef
    /\ (response.kind = "resolved" /\ NotValidJson(response.text)) =>
          /\ extracted.state = "rejected"
          /\ extracted.error.name = "Error"

\* C30 but for the name, of which the code only says that it is truthy.
ReturnedRecordHasDefaultsButName ==
    /\ extracted.state = "returned" =>
          LET replied == JsonParse(StripFence(response.text))
              record == extracted.value
          IN /\ Truthy(record.name)
             /\ ~Truthy(replied.name) => record.name = UntitledRecipeName
             /\ Truthy(replied.name) => record.name = replied.name
             /\ record.recipeIngredient.t = "array"
             /\ replied.recipeIngredient.t # "array" =>
                   record.recipeIngredient = Arr(<<>>)
             /\ record.recipeInstructions.t = "array"
             /\ replied.recipeInstructions.t # "array" =>
                   record.recipeInstructions = Arr(<<>>)
             /\ record.dishImageDescription # Undef
    /\ (response.kind = "resolved" /\ NotValidJson(response.text)) =>
          /\ extracted.state = "rejected"
          /\ extracted.error.message
               = <<"Failed to extract recipe via AI: ">>
                   \o (IF response.text = Undef THEN TrimOfUndefined.message
                       ELSE InvalidJsonFormat.message)

\* ------------------------------------------------------- the export modal
PleaseEnterBoth == Str(<<"Please enter both Tandoor URL and API Key.">>)
UnknownExportError == Str(<<"An unknown error occurred during export.">>)
\* `Export failed: ${err.message}`
ExportFailed(err) == Str(<<"Export failed: ">> \o err.message)
\* recipeData.name || "Extracted Recipe"
RecipeName(name) ==
    IF Truthy(name) THEN name.s
    ELSE <<"E", "x", "t", "r", "a", "c", "t", "e", "d", " ",
           "R", "e", "c", "i", "p", "e">>
\* `Recipe "${recipeName}" successfully exported to Tandoor!`
SuccessfullyExported(recipeName) ==
    Str(<<"Recipe \"">> \o recipeName \o <<"\" successfully exported to Tandoor!">>)

\* A submit control that is disabled only while loading.
SubmitDisabledMutant(m) == m.isLoading
\* disabled={isLoading || !!success} (line 156)
SubmitDisabled(m) == m.isLoading \/ Truthy(m.success)

\* The catch of handleSubmit (lines 51-57).
SubmitCaught(err) ==
    IF err.name # "thrown value" THEN ExportFailed(err)
    ELSE UnknownExportError

\* A call of onExport that has not settled: the modal instance whose
\* handleSubmit awaits it, and its arguments.
PendingExport(m) ==
    [instance |-> m.instance, tandoorUrl |-> m.tandoorUrl, apiKey |-> m.apiKey]

\* What the fields are changed to, and what a pending export rejects with.
ModalUrls == {<<>>, <<" ">>, ValidUrl}
ModalKeys == {<<>>, <<"k", "1">>}
ExportRejections ==
    {Err("Error", AuthenticationFailed), Err("TypeError", <<"Load failed">>)}
ModalRecipes ==
    {BaseRecipe, [BaseRecipe EXCEPT !.name = Str(<<>>)]}

\* The "Export to Tandoor" button (RecipeDisplay lines 139-141): the modal is
\* mounted, with the state of lines 17-21.
handleOpenTandoorModal ==
    /\ ~isTandoorModalOpen
    /\ opens < MaxOpens
    /\ isTandoorModalOpen' = TRUE
    /\ opens' = opens + 1
    /\ modal' = FreshModal(opens + 1)
    /\ UNCHANGED <<pendingExports, othersThanModal>>

\* The close (X) button (lines 79-87), which is never disabled: onClose
\* unmounts the modal (RecipeDisplay lines 289-296).
CloseButton ==
    /\ isTandoorModalOpen
    /\ isTandoorModalOpen' = FALSE
    /\ modal' = FreshModal(0)
    /\ UNCHANGED <<opens, pendingExports, othersThanModal>>

\* The Cancel button (lines 161-168), disabled while loading.
CancelButton ==
    /\ isTandoorModalOpen
    /\ ~modal.isLoading
    /\ isTandoorModalOpen' = FALSE
    /\ modal' = FreshModal(0)
    /\ UNCHANGED <<opens, pendingExports, othersThanModal>>

handleUrlChange ==
    /\ isTandoorModalOpen
    /\ \E value \in ModalUrls \ {modal.tandoorUrl} :
          modal' = [modal EXCEPT !.tandoorUrl = value,
                                 !.error = Null, !.success = Null]
    /\ UNCHANGED <<isTandoorModalOpen, opens, pendingExports, othersThanModal>>

handleApiKeyChange ==
    /\ isTandoorModalOpen
    /\ \E value \in ModalKeys \ {modal.apiKey} :
          modal' = [modal EXCEPT !.apiKey = value,
                                 !.error = Null, !.success = Null]
    /\ UNCHANGED <<isTandoorModalOpen, opens, pendingExports, othersThanModal>>

\* The form is submitted (lines 35-45), which the submit control allows
\* when it is not disabled.  exportToTandoor rejects a URL without scheme
\* before it awaits anything, so that export settles before the next event.
handleSubmit ==
    /\ isTandoorModalOpen
    /\ ~SubmitDisabled(modal)
    /\ IF modal.tandoorUrl = <<>> \/ modal.apiKey = <<>>
       THEN /\ modal' = [modal EXCEPT !.error = PleaseEnterBoth]
            /\ UNCHANGED pendingExports
       ELSE IF InvalidUrl(modal.tandoorUrl)
       THEN /\ modal' = [modal EXCEPT !.error = SubmitCaught(InvalidUrlError),
                                      !.success = Null, !.isLoading = FALSE]
            /\ UNCHANGED pendingExports
       ELSE /\ modal' = [modal EXCEPT !.error = Null, !.success = Null,
                                      !.isLoading = TRUE]
            /\ pendingExports' = pendingExports \cup {PendingExport(modal)}
    /\ UNCHANGED <<isTandoorModalOpen, opens, othersThanModal>>

\* The instance that awaits the export is still the mounted one.
Mounted(export) == isTandoorModalOpen /\ modal.instance = export.instance

\* onExport resolves (lines 46 and 59); the setters of an instance that was
\* unmounted change nothing.
ExportResolves ==
    /\ \E export \in pendingExports :
          /\ pendingExports' = pendingExports \ {export}
          /\ modal' = IF Mounted(export)
                      THEN [modal EXCEPT
                              !.success =
                                 SuccessfullyExported(RecipeName(recipeData.name)),
                              !.isLoading = FALSE]
                      ELSE modal
    /\ UNCHANGED <<isTandoorModalOpen, opens, othersThanModal>>

\* onExport rejects (lines 51-59).
ExportRejects ==
    /\ \E export \in pendingExports, err \in ExportRejections :
          /\ pendingExports' = pendingExports \ {export}
          /\ modal' = IF Mounted(export)
                      THEN [modal EXCEPT !.error = SubmitCaught(err),
                                         !.isLoading = FALSE]
                      ELSE modal
    /\ UNCHANGED <<isTandoorModalOpen, opens, othersThanModal>>

InitModal ==
    /\ recipeData \in ModalRecipes
    /\ tandoorBaseUrl = ValidUrl
    /\ apiKey = <<"k", "1">>
    /\ reply = Response(201, TextBody(<<>>))
    /\ NothingDone

NextModal ==
    \/ handleOpenTandoorModal
    \/ CloseButton
    \/ CancelButton
    \/ handleUrlChange
    \/ handleApiKeyChange
    \/ handleSubmit
    \/ ExportResolves
    \/ ExportRejects

SpecModal == InitModal /\ [][NextModal]_vars

\* ------------------------------------------------ claims on the export modal
\* C24: at most one call of exportToTandoor for the displayed recipe is
\* pending, whatever the order of submits, field edits, Cancel, the close
\* (X) button, reopening and the completion of requests.
AtMostOnePendingExport == Cardinality(pendingExports) <= 1

\* The part of C24 that the disabled submit control gives: one instance of
\* the modal never awaits two exports.
OnePendingExportByInstance ==
    \A a, b \in pendingExports : a.instance = b.instance => a = b

\* C25, as claimed: once the mounted instance shows a success, its submit
\* control is disabled after every step that leaves that instance mounted.
SubmitStaysDisabledAfterSuccess ==
    [][(isTandoorModalOpen /\ Truthy(modal.success)
          /\ isTandoorModalOpen' /\ modal'.instance = modal.instance)
         => SubmitDisabled(modal')]_vars

\* C25: while the mounted instance shows a success no export is started, and
\* the success stays, with the submit control disabled, until a field is
\* changed or the modal is closed.
NoExportWhileSuccessShown ==
    [][(isTandoorModalOpen /\ Truthy(modal.success)) =>
         /\ pendingExports' \subseteq pendingExports
         /\ (isTandoorModalOpen' /\ modal'.instance = modal.instance) =>
               \/ SubmitDisabled(modal') /\ modal'.success = modal.success
               \/ /\ modal'.tandoorUrl # modal.tandoorUrl
                     \/ modal'.apiKey # modal.apiKey
                  /\ modal'.success = Null]_vars

\* An export has succeeded in the second instance of the modal, while its
\* URL field was being emptied.
NoExportWhileSuccessShownWitness ==
    /\ isTandoorModalOpen
    /\ modal.instance = 2
    /\ modal.success = SuccessfullyExported(<<"R">>)
    /\ modal.tandoorUrl = <<>>
    /\ ~modal.isLoading

\* error and success are never both set.
NotBothErrorAndSuccess ==
    isTandoorModalOpen => ~(Truthy(modal.error) /\ Truthy(modal.success))

\* A step of handleSubmit that changes the modal: the submit control is
\* enabled, and the instance and its fields stay.
Submitted ==
    /\ isTandoorModalOpen /\ ~SubmitDisabled(modal)
    /\ modal' # modal /\ modal'.instance = modal.instance
    /\ modal'.tandoorUrl = modal.tandoorUrl /\ modal'.apiKey = modal.apiKey

\* A submit with an empty field sets the error and starts no export.
EmptySubmitStartsNothing ==
    (Submitted /\ (modal.tandoorUrl = <<>> \/ modal.apiKey = <<>>))
      => modal'.error = PleaseEnterBoth /\ pendingExports' = pendingExports

\* The modal shows the outcome of an export: it is not loading, and it has
\* either the success or an error that starts with "Export failed: ".
ShowsOutcome(m) ==
    /\ ~m.isLoading
    /\ Truthy(m.success) # Truthy(m.error)
    /\ Truthy(m.error) => m.error.s[1] = "Export failed: "

\* C26: error and success are never both set; a submit with an empty URL or
\* API key sets the error and starts no export; and when a started export
\* settles the modal is not loading and has exactly one of the success and
\* an error prefixed "Export failed: ".
ExportsSettleShown ==
    /\ []NotBothErrorAndSuccess
    /\ [][/\ EmptySubmitStartsNothing
          /\ pendingExports' # pendingExports /\ pendingExports' \subseteq pendingExports
               => ShowsOutcome(modal')]_vars

\* C26 for the exports whose instance is still mounted when they settle, and
\* for the export of a URL without scheme, which settles at once.
ExportsSettleShownWhileMounted ==
    /\ []NotBothErrorAndSuccess
    /\ [][/\ EmptySubmitStartsNothing
          /\ \A export \in pendingExports \ pendingExports' :
                Mounted(export) =>
                   /\ ShowsOutcome(modal')
                   /\ modal'.instance = export.instance
          /\ (Submitted /\ modal.tandoorUrl = <<" ">> /\ modal.apiKey # <<>>)
               => /\ ShowsOutcome(modal')
                  /\ pendingExports' = pendingExports]_vars

\* ------------------------------------------------------------------- App
File(name, type) == [t |-> "file", name |-> name, type |-> type]
\* URL.createObjectURL(file)
ObjectUrl(file) == Str(<<"blob:", file.name>>)

\* handleImageUpload up to its first await (lines 26-37).
UploadStarted(a, file) ==
    [a EXCEPT !.selectedFile = file, !.imagePreviewUrl = ObjectUrl(file),
              !.recipeData = Null, !.error = Null,
              !.generatedDishImageUrl = Null, !.dishImageError = Null,
              !.isGeneratingDishImage = FALSE, !.isLoading = TRUE]

\* The call of handleImageUpload for the file: where it is suspended
\* ("reading", "extracting", "generating"), the checkbox value its closure
\* holds, what its awaited calls gave and how often it called
\* generateDishImage.
Upload(file, shouldGenerateDishImage) ==
    [file |-> file, pc |-> "reading",
     shouldGenerateDishImage |-> shouldGenerateDishImage,
     extraction |-> Pending, imageCalls |-> 0, image |-> Pending]

NoDescriptionFound ==
    Str(<<"No dish image description was found in the recipe to generate an image from.">>)
NoImageReturned ==
    Str(<<"An image could not be generated based on the description (the AI did not return an image).">>)
FailedToGenerate == Str(<<"Failed to generate dish image.">>)
UnknownExtractionError ==
    <<"An unknown error occurred during recipe extraction.">>

\* An image generation that does not look at the checkbox.
CallsGenerateDishImageMutant(shouldGenerateDishImage, extractedData) ==
    Truthy(extractedData.dishImageDescription)
\* Lines 46-47: the checkbox is set and the record has a description.
CallsGenerateDishImage(shouldGenerateDishImage, extractedData) ==
    shouldGenerateDishImage /\ Truthy(extractedData.dishImageDescription)

\* Lines 42-48 and 65-69, with the finally of line 78 when nothing more is
\* awaited.
Extracted(a, extractedData, shouldGenerateDishImage) ==
    LET shown == [a EXCEPT !.recipeData = extractedData, !.error = Null]
    IN IF CallsGenerateDishImage(shouldGenerateDishImage, extractedData)
       THEN [shown EXCEPT !.isGeneratingDishImage = TRUE]
       ELSE IF shouldGenerateDishImage
       THEN [shown EXCEPT !.dishImageError = NoDescriptionFound,
                          !.isLoading = FALSE]
       ELSE [shown EXCEPT !.isLoading = FALSE]

\* The outer catch and finally (lines 72-79).
UploadFailed(a, err) ==
    LET errorMessage == IF err.name # "thrown value" THEN err.message
                        ELSE UnknownExtractionError
        kept == /\ errorMessage # <<>>
                /\ errorMessage[1] \in {"Gemini API Error: ",
                                        "Failed to extract recipe via AI: "}
    IN [a EXCEPT !.error = Str(IF kept THEN errorMessage
                               ELSE <<"Failed to process recipe: ">>
                                      \o errorMessage),
                 !.recipeData = Null, !.isLoading = FALSE]

\* Lines 52-58, with the finally of lines 63 and 78.
ImageGenerated(a, dishImageResult) ==
    IF Truthy(dishImageResult)
    THEN [a EXCEPT !.generatedDishImageUrl =
                      Str(<<"data:">> \o dishImageResult.mimeType
                            \o <<";base64,">> \o dishImageResult.base64Data),
                   !.isGeneratingDishImage = FALSE, !.isLoading = FALSE]
    ELSE [a EXCEPT !.dishImageError = NoImageReturned,
                   !.isGeneratingDishImage = FALSE, !.isLoading = FALSE]

\* An inner catch without the finally of line 63.
ImageFailedMutant(a, imgErr) ==
    [a EXCEPT !.dishImageError = IF imgErr.name # "thrown value"
                                 THEN Str(imgErr.message)
                                 ELSE FailedToGenerate,
              !.isLoading = FALSE]
\* The inner catch (lines 59-61), with the finally of lines 63 and 78.
ImageFailed(a, imgErr) ==
    [a EXCEPT !.dishImageError = IF imgErr.name # "thrown value"
                                 THEN Str(imgErr.message)
                                 ELSE FailedToGenerate,
              !.isGeneratingDishImage = FALSE, !.isLoading = FALSE]

\* clearSelection (lines 82-95).
Cleared(a) ==
    [a EXCEPT !.selectedFile = Null, !.recipeData = Null, !.error = Null,
              !.isLoading = FALSE, !.imagePreviewUrl = Null,
              !.generatedDishImageUrl = Null,
              !.isGeneratingDishImage = FALSE, !.dishImageError = Null]

\* What App renders: the selectors and the uploader (line 109), "Try again"
\* (line 128), the X on the preview (line 141), "Start Over" (lines 161-163)
\* and RecipeDisplay (line 161).
UploaderOffered(a) == ~Truthy(a.selectedFile) /\ ~a.isLoading
TryAgainOffered(a) == Truthy(a.error) /\ ~a.isLoading
RemoveImageOffered(a) ==
    /\ Truthy(a.imagePreviewUrl) /\ ~Truthy(a.recipeData)
    /\ ~a.isLoading /\ ~Truthy(a.error)
\* A "Start Over" that is shown as soon as there is a recipe.
StartOverOfferedMutant(a) == Truthy(a.recipeData) /\ Truthy(a.imagePreviewUrl)
StartOverOffered(a) ==
    Truthy(a.recipeData) /\ ~a.isLoading /\ Truthy(a.imagePreviewUrl)
RecipeDisplayRendered(a) == Truthy(a.recipeData) /\ ~a.isLoading

\* ------------------------------------------------------- inputs of App
Files == {File("a.png", "image/png"), File("b.jpg", "image/jpeg")}
ReadFailure ==
    Err("Error",
        <<"Failed to convert file to base64: The resulting string was empty or invalid.">>)
AppDescriptions ==
    {Undef, Null, Str(<<>>), Str(<<" ">>), Str(<<"p", "i", "e">>), Num(7)}
\* What extractRecipeFromImage settles with.
AppExtractions ==
    {ExtractionOutcome(ReplyText(FALSE,
        JsonReply(Parsed(FALSE, SchemaOrg, Str(<<"S">>), Arr(<<>>), Arr(<<>>),
                         description)))) :
        description \in AppDescriptions}
      \cup {ExtractionOutcome(ReplyText(FALSE, NotJsonReply)),
            Rejected(KeyNotConfigured)}
      \cup {Rejected(ExtractionCaught(error)) : error \in GenerateRejections}
DishImage == [t |-> "object", base64Data |-> <<"i">>,
              mimeType |-> <<"image/jpeg">>]
TrimIsNotAFunction ==
    Err("TypeError", <<"description.trim is not a function">>)
\* What generateDishImage settles with for the description (lines 135-168):
\* null for a blank one and for every failure of the image model.
DishImageOutcomes(description) ==
    IF description.t # "string" THEN {Rejected(TrimIsNotAFunction)}
    ELSE IF Trim(description.s) = <<>> THEN {Returned(Null)}
    ELSE {Returned(DishImage), Returned(Null)}

\* --------------------------------------------------------- App is used
\* The checkbox is changed (lines 112-116).
setShouldGenerateDishImage ==
    /\ UploaderOffered(app)
    /\ app' = [app EXCEPT !.shouldGenerateDishImage = ~@]
    /\ UNCHANGED <<uploads, lastUpload, othersThanApp>>

\* A file is chosen or dropped (ImageUploader lines 53-58 and 78-86), which
\* needs the uploader to be rendered (line 109).
handleImageUpload ==
    /\ UploaderOffered(app)
    /\ \E file \in Files :
          /\ app' = UploadStarted(app, file)
          /\ uploads' = Append(uploads,
                               Upload(file, app.shouldGenerateDishImage))
    /\ UNCHANGED <<lastUpload, othersThanApp>>

\* One of the clear controls is clicked.
clearSelection ==
    /\ \/ TryAgainOffered(app)
       \/ RemoveImageOffered(app)
       \/ StartOverOffered(app)
    /\ app' = Cleared(app)
    /\ UNCHANGED <<uploads, lastUpload, othersThanApp>>

\* The sequence without its i-th element.
Without(s, i) == [k \in 1..(Len(s) - 1) |-> IF k < i THEN s[k] ELSE s[k + 1]]

\* fileToBase64 resolves (line 40): extractRecipeFromImage is called.
fileToBase64Resolves ==
    /\ \E i \in 1..Len(uploads) :
          /\ uploads[i].pc = "reading"
          /\ uploads' = [uploads EXCEPT ![i].pc = "extracting"]
    /\ UNCHANGED <<app, lastUpload, othersThanApp>>

\* fileToBase64 rejects.
fileToBase64Rejects ==
    /\ \E i \in 1..Len(uploads) :
          /\ uploads[i].pc = "reading"
          /\ app' = UploadFailed(app, ReadFailure)
          /\ lastUpload' = [uploads[i] EXCEPT !.pc = "done"]
          /\ uploads' = Without(uploads, i)
    /\ UNCHANGED othersThanApp

\* extractRecipeFromImage resolves (lines 41-48 and 65-69).
extractRecipeFromImageResolves ==
    /\ \E i \in 1..Len(uploads), outcome \in AppExtractions :
          /\ uploads[i].pc = "extracting"
          /\ outcome.state = "returned"
          /\ app' = Extracted(app, outcome.value,
                              uploads[i].shouldGenerateDishImage)
          /\ IF CallsGenerateDishImage(uploads[i].shouldGenerateDishImage,
                                       outcome.value)
             THEN /\ uploads' = [uploads EXCEPT ![i].pc = "generating",
                                                ![i].extraction = outcome,
                                                ![i].imageCalls = @ + 1]
                  /\ UNCHANGED lastUpload
             ELSE /\ lastUpload' = [uploads[i] EXCEPT !.pc = "done",
                                                      !.extraction = outcome]
                  /\ uploads' = Without(uploads, i)
    /\ UNCHANGED othersThanApp

\* extractRecipeFromImage rejects (lines 72-79).
extractRecipeFromImageRejects ==
    /\ \E i \in 1..Len(uploads), outcome \in AppExtractions :
          /\ uploads[i].pc = "extracting"
          /\ outcome.state = "rejected"
          /\ app' = UploadFailed(app, outcome.error)
          /\ lastUpload' = [uploads[i] EXCEPT !.pc = "done",
                                              !.extraction = outcome]
          /\ uploads' = Without(uploads, i)
    /\ UNCHANGED othersThanApp

\* generateDishImage resolves (lines 51-58).
generateDishImageResolves ==
    /\ \E i \in 1..Len(uploads) :
          /\ uploads[i].pc = "generating"
          /\ \E outcome \in DishImageOutcomes(
                   uploads[i].extraction.value.dishImageDescription) :
                /\ outcome.state = "returned"
                /\ app' = ImageGenerated(app, outcome.value)
                /\ lastUpload' = [uploads[i] EXCEPT !.pc = "done",
                                                    !.image = outcome]
          /\ uploads' = Without(uploads, i)
    /\ UNCHANGED othersThanApp

\* generateDishImage rejects (lines 59-61).
generateDishImageRejects ==
    /\ \E i \in 1..Len(uploads) :
          /\ uploads[i].pc = "generating"
          /\ \E outcome \in DishImageOutcomes(
                   uploads[i].extraction.value.dishImageDescription) :
                /\ outcome.state = "rejected"
                /\ app' = ImageFailed(app, outcome.error)
                /\ lastUpload' = [uploads[i] EXCEPT !.pc = "done",
                                                    !.image = outcome]
          /\ uploads' = Without(uploads, i)
    /\ UNCHANGED othersThanApp

InitApp ==
    /\ recipeData = BaseRecipe
    /\ tandoorBaseUrl = ValidUrl
    /\ apiKey = <<"k", "1">>
    /\ reply = Response(201, TextBody(<<>>))
    /\ NothingDone

\* An awaited call of a pending upload settles.
Settles ==
    \/ fileToBase64Resolves
    \/ fileToBase64Rejects
    \/ extractRecipeFromImageResolves
    \/ extractRecipeFromImageRejects
    \/ generateDishImageResolves
    \/ generateDishImageRejects

NextApp ==
    \/ setShouldGenerateDishImage
    \/ handleImageUpload
    \/ clearSelection
    \/ fileToBase64Resolves
    \/ fileToBase64Rejects
    \/ extractRecipeFromImageResolves
    \/ extractRecipeFromImageRejects
    \/ generateDishImageResolves
    \/ generateDishImageRejects

SpecApp == InitApp /\ [][NextApp]_vars

\* The file reader and the services answer: a call that is awaited settles.
SpecAppFair == InitApp /\ [][NextApp]_vars /\ WF_vars(Settles)

\* ------------------------------------------------------------ claims on App
\* C27: isGeneratingDishImage implies isLoading, generatedDishImageUrl and
\* dishImageError are never both set, and RecipeDisplay is never rendered
\* with isGeneratingDishImage true.
GeneratingOnlyWhileLoading ==
    /\ app.isGeneratingDishImage => app.isLoading
    /\ ~(app.generatedDishImageUrl # Null /\ app.dishImageError # Null)
    /\ RecipeDisplayRendered(app) => ~app.isGeneratingDishImage

\* The image of the second upload is being generated, after a first upload
\* that ended with an image error.
GeneratingOnlyWhileLoadingWitness ==
    /\ app.isGeneratingDishImage
    /\ app.isLoading
    /\ Truthy(app.recipeData)
    /\ lastUpload # NoUpload
    /\ lastUpload.image.state = "rejected"

\* The last upload has ended and its results have not been cleared.
UploadEnded ==
    uploads = <<>> /\ lastUpload # NoUpload /\ Truthy(app.selectedFile)

\* The upload called generateDishImage only with the checkbox set and a
\* description in the record.
ImageCalledAsAsked(upload) ==
    upload.imageCalls > 0 =>
       /\ upload.imageCalls = 1
       /\ upload.shouldGenerateDishImage
       /\ upload.extraction.state = "returned"
       /\ Truthy(upload.extraction.value.dishImageDescription)

\* C28: every upload ends, with isLoading false and exactly one of
\* recipeData and error set: a failed extraction gives the error, no
\* recipeData and no call of generateDishImage; a successful one gives the
\* recipeData and no error whatever the image generation gave; and
\* generateDishImage is called only when the checkbox is set and the record
\* has a dishImageDescription.
EveryUploadEnds ==
    /\ [](UploadEnded =>
            /\ ~app.isLoading
            /\ (app.recipeData # Null) # (app.error # Null)
            /\ lastUpload.extraction.state # "returned" =>
                  /\ app.error # Null /\ app.recipeData = Null
                  /\ lastUpload.imageCalls = 0
            /\ lastUpload.extraction.state = "returned" =>
                  /\ app.recipeData = lastUpload.extraction.value
                  /\ app.error = Null
            /\ ImageCalledAsAsked(lastUpload))
    /\ [](\A i \in 1..Len(uploads) : ImageCalledAsAsked(uploads[i]))
    /\ (uploads # <<>>) ~> (uploads = <<>> /\ ~app.isLoading)

\* An upload has ended with its recipe although generateDishImage threw.
EveryUploadEndsWitness ==
    /\ UploadEnded
    /\ lastUpload.image.state = "rejected"
    /\ Truthy(app.recipeData)
    /\ app.dishImageError = Str(TrimIsNotAFunction.message)

\* C29: no two uploads overlap, and while an upload is pending neither the
\* uploader nor a clear control is offered, so what an upload writes belongs
\* to the selected file and a reset state holds no results.
UploadsDoNotOverlap ==
    /\ Len(uploads) <= 1
    /\ uploads # <<>> =>
          /\ app.isLoading
          /\ app.selectedFile = uploads[1].file
          /\ ~UploaderOffered(app)
          /\ ~TryAgainOffered(app)
          /\ ~RemoveImageOffered(app)
          /\ ~StartOverOffered(app)
    /\ UploadEnded => app.selectedFile = lastUpload.file
    /\ ~Truthy(app.selectedFile) =>
          /\ uploads = <<>>
          /\ app = FreshApp(app.shouldGenerateDishImage)

\* The second upload, of another file than the first, awaits its image.
UploadsDoNotOverlapWitness ==
    /\ Len(uploads) = 1
    /\ uploads[1].pc = "generating"
    /\ lastUpload # NoUpload
    /\ lastUpload.file # uploads[1].file
    /\ Truthy(app.recipeData)

====
